---- MODULE Spec2Model ----
(***************************************************************************)
(* A model of the session and state-management core of the S.V.E.N.       *)
(* messaging assistant: the anti-abuse limiter, the Redis-backed profile   *)
(* and pending-event store, the user and onboarding managers, and the SMS  *)
(* webhook that composes them.                                             *)
(***************************************************************************)
EXTENDS Integers, Sequences, FiniteSets, TLC

(***************************************************************************)
(* Bounds of the model.                                                    *)
(***************************************************************************)
\* time is counted in ticks; TicksPerSec ticks make one second, so that the
\* truncation int(ban_until - now) of a float number of seconds is visible
TicksPerSec == 2
\* the last instant of the limiter's clock, in ticks
MaxTime == 1200

(***************************************************************************)
(* utils/rate_limiting.py : AntiAbuseLimiter                               *)
(***************************************************************************)
VARIABLES now, msg_minute, fail_minute, banned, identical_msgs, lastAllow,
          admitted, prior

limiterVars == <<now, msg_minute, fail_minute, banned, identical_msgs, lastAllow>>
ghostVars == <<admitted, prior>>

\* the key-value store and the requests in flight, described with StoreInit
VARIABLES redis, pc, stack, loc, returned

storeVars == <<redis, pc, stack, loc, returned>>

\* the caches held in memory, described with CacheInit
VARIABLES cache, response_cache, lru_cache

cacheVars == <<cache, response_cache, lru_cache>>
vars == <<limiterVars, ghostVars, storeVars, cacheVars>>

MsgCap == 10
FailCap == 5
IdenticalCap == 5
WindowSecs == 60
IdenticalBanSecs == 600
AbuseBanSecs == 300

Window == WindowSecs * TicksPerSec

TestPhone == "+15551234567"
Whitelist == {"+16178171635"}
Phones == {TestPhone} \cup Whitelist

\* the message texts of the limiter's own specification, as numbers: the
\* text of the identity's previous message again, or a text that is none of
\* the texts the limiter remembers of it
LimiterMsgs(phone) ==
    LET im == identical_msgs[phone]
    IN  {CHOOSE n \in 1..(IdenticalCap + 1) : \A i \in 1..Len(im) : im[i] # n}
        \cup (IF im = <<>> THEN {} ELSE {im[Len(im)]})

\* the instants at which the clock is read: around the end of a window and
\* around the expiry of a ban, counted from the start of every ban period
Instants ==
    {t \in 0..MaxTime :
        t % (AbuseBanSecs * TicksPerSec)
            \in {0, Window - 1, Window, AbuseBanSecs * TicksPerSec - 1}}

\* deque.append with maxlen: a full deque drops its oldest entry
DequeAppend(d, x, maxlen) ==
    IF Len(d) >= maxlen THEN Tail(d) \o <<x>> ELSE Append(d, x)

\* deque(iterable, maxlen): keeps the last maxlen items
DequeOf(s, maxlen) ==
    IF Len(s) > maxlen THEN SubSeq(s, Len(s) - maxlen + 1, Len(s)) ELSE s

\* [t for t in d if now - t < 60]
Recent(d, t0) == SelectSeq(d, LAMBDA t : t0 - t < Window)

\* int(x) of a non-negative number of seconds held in ticks
IntSecs(ticks) == ticks \div TicksPerSec

AllowResult(phone, allowed, wait) ==
    [phone |-> phone, allowed |-> allowed, wait |-> wait]

\* allow with _msg_minute a plain list instead of a deque(maxlen=10)
allow_unbounded(phone, message, success) ==
    IF phone \in Whitelist
    THEN /\ lastAllow' = AllowResult(phone, TRUE, 0)
         /\ UNCHANGED <<msg_minute, fail_minute, banned, identical_msgs>>
    ELSE IF now < banned[phone]
    THEN /\ lastAllow' = AllowResult(phone, FALSE, IntSecs(banned[phone] - now))
         /\ UNCHANGED <<msg_minute, fail_minute, banned, identical_msgs>>
    ELSE LET mm == Append(msg_minute[phone], now)
             fm == IF ~success
                   THEN DequeAppend(fail_minute[phone], now, FailCap)
                   ELSE fail_minute[phone]
             im == identical_msgs[phone]
             repeated == im # <<>> /\ im[Len(im)] = message
             im2 == DequeAppend(im, message, IdenticalCap)
             mp == Recent(mm, now)
             fp == DequeOf(Recent(fm, now), FailCap)
         IN  /\ identical_msgs' = [identical_msgs EXCEPT ![phone] = im2]
             /\ IF repeated /\ Len(im2) >= IdenticalCap
                THEN /\ banned' = [banned EXCEPT
                                     ![phone] = now + IdenticalBanSecs * TicksPerSec]
                     /\ msg_minute' = [msg_minute EXCEPT ![phone] = mm]
                     /\ fail_minute' = [fail_minute EXCEPT ![phone] = fm]
                     /\ lastAllow' = AllowResult(phone, FALSE, IdenticalBanSecs)
                ELSE /\ msg_minute' = [msg_minute EXCEPT ![phone] = mp]
                     /\ fail_minute' = [fail_minute EXCEPT ![phone] = fp]
                     /\ IF Len(mp) > MsgCap \/ Len(fp) > FailCap
                        THEN /\ banned' = [banned EXCEPT
                                     ![phone] = now + AbuseBanSecs * TicksPerSec]
                             /\ lastAllow' = AllowResult(phone, FALSE, AbuseBanSecs)
                        ELSE /\ banned' = banned
                             /\ lastAllow' = AllowResult(phone, TRUE, 0)

allow(phone, message, success) ==
    IF phone \in Whitelist
    THEN /\ lastAllow' = AllowResult(phone, TRUE, 0)
         /\ UNCHANGED <<msg_minute, fail_minute, banned, identical_msgs>>
    ELSE IF now < banned[phone]
    THEN /\ lastAllow' = AllowResult(phone, FALSE, IntSecs(banned[phone] - now))
         /\ UNCHANGED <<msg_minute, fail_minute, banned, identical_msgs>>
    ELSE LET mm == DequeAppend(msg_minute[phone], now, MsgCap)
             fm == IF ~success
                   THEN DequeAppend(fail_minute[phone], now, FailCap)
                   ELSE fail_minute[phone]
             im == identical_msgs[phone]
             repeated == im # <<>> /\ im[Len(im)] = message
             im2 == DequeAppend(im, message, IdenticalCap)
             mp == DequeOf(Recent(mm, now), MsgCap)
             fp == DequeOf(Recent(fm, now), FailCap)
         IN  /\ identical_msgs' = [identical_msgs EXCEPT ![phone] = im2]
             /\ IF repeated /\ Len(im2) >= IdenticalCap
                THEN /\ banned' = [banned EXCEPT
                                     ![phone] = now + IdenticalBanSecs * TicksPerSec]
                     /\ msg_minute' = [msg_minute EXCEPT ![phone] = mm]
                     /\ fail_minute' = [fail_minute EXCEPT ![phone] = fm]
                     /\ lastAllow' = AllowResult(phone, FALSE, IdenticalBanSecs)
                ELSE /\ msg_minute' = [msg_minute EXCEPT ![phone] = mp]
                     /\ fail_minute' = [fail_minute EXCEPT ![phone] = fp]
                     /\ IF Len(mp) > MsgCap \/ Len(fp) > FailCap
                        THEN /\ banned' = [banned EXCEPT
                                     ![phone] = now + AbuseBanSecs * TicksPerSec]
                             /\ lastAllow' = AllowResult(phone, FALSE, AbuseBanSecs)
                        ELSE /\ banned' = banned
                             /\ lastAllow' = AllowResult(phone, TRUE, 0)

is_banned(phone) == now < banned[phone]

LimiterInit ==
    /\ now = 0
    /\ msg_minute = [p \in Phones |-> <<>>]
    /\ fail_minute = [p \in Phones |-> <<>>]
    /\ banned = [p \in Phones |-> 0]
    /\ identical_msgs = [p \in Phones |-> <<>>]
    /\ lastAllow = AllowResult(TestPhone, TRUE, 0)
    /\ admitted = [p \in Phones |-> <<>>]
    /\ prior = [count |-> 0, banned |-> FALSE, burst |-> 0]

\* one call of AntiAbuseLimiter.allow; admitted keeps the times of the last
\* MsgCap + 1 admitted messages of an identity that is not allow-listed, prior
\* what held when the call was made: how many of its messages had been
\* admitted in the trailing window, whether it was banned, and how many
\* messages its last burst (the messages within one window of the call
\* before this one) had got admitted
AllowCall(phone, message, success) ==
    /\ allow(phone, message, success)
    /\ prior' = [count |-> Len(Recent(admitted[phone], now)),
                 banned |-> is_banned(phone),
                 burst |-> Len(admitted[phone])]
    /\ admitted' = [admitted EXCEPT ![phone] =
                      IF phone \in Whitelist THEN @
                      ELSE IF lastAllow'.allowed
                      THEN DequeAppend(Recent(@, now), now, MsgCap + 1)
                      ELSE Recent(@, now)]
    /\ now' = now
    /\ UNCHANGED cacheVars

\* time passes between two calls
Advance ==
    /\ \E t \in Instants : t > now /\ now' = t
    /\ UNCHANGED <<msg_minute, fail_minute, banned, identical_msgs, lastAllow>>
    /\ UNCHANGED <<ghostVars, cacheVars>>

LimiterNext ==
    \/ \E p \in Phones : \E m \in LimiterMsgs(p) :
          AllowCall(p, m, TRUE) /\ UNCHANGED storeVars
    \/ Advance /\ UNCHANGED storeVars

(***************************************************************************)
(* Python values.  Every value is a tuple of strings, so that any two can  *)
(* be compared: a str is the tuple of its characters, the other values are *)
(* one-element tuples that no str equals.                                  *)
(***************************************************************************)
PyNone == <<"None">>
PyTrue == <<"True">>
PyFalse == <<"False">>
\* dict.get(key) of a key the dict does not hold
Absent == <<"absent">>

\* bool(v) of a value a profile can hold
Truthy(v) == v \notin {PyNone, PyFalse, Absent, <<>>}

LowerCase == <<"a", "b", "c", "d", "e", "f", "g", "h", "i", "j", "k", "l", "m",
               "n", "o", "p", "q", "r", "s", "t", "u", "v", "w", "x", "y", "z">>
UpperCase == <<"A", "B", "C", "D", "E", "F", "G", "H", "I", "J", "K", "L", "M",
               "N", "O", "P", "Q", "R", "S", "T", "U", "V", "W", "X", "Y", "Z">>
Digits == {"0", "1", "2", "3", "4", "5", "6", "7", "8", "9"}

IsLetter(c) == \E i \in 1..26 : c = LowerCase[i] \/ c = UpperCase[i]

\* str.lower and str.upper of one character
ToLower(c) ==
    IF \E i \in 1..26 : c = UpperCase[i]
    THEN LowerCase[CHOOSE i \in 1..26 : c = UpperCase[i]]
    ELSE c
ToUpper(c) ==
    IF \E i \in 1..26 : c = LowerCase[i]
    THEN UpperCase[CHOOSE i \in 1..26 : c = LowerCase[i]]
    ELSE c

Lower(s) == [i \in 1..Len(s) |-> ToLower(s[i])]

\* str.title of a word of letters
Title(s) == [i \in 1..Len(s) |-> IF i = 1 THEN ToUpper(s[i]) ELSE ToLower(s[i])]

\* the literal lit matches s at position i, ignoring case
LitAt(s, i, lit) ==
    /\ i + Len(lit) - 1 <= Len(s)
    /\ \A k \in 1..Len(lit) : ToLower(s[i + k - 1]) = ToLower(lit[k])

\* the length of the longest run of letters of s that starts at position j
LetterRun(s, j) ==
    CHOOSE n \in 0..(Len(s) + 1 - j) :
        /\ \A k \in j..(j + n - 1) : IsLetter(s[k])
        /\ (j + n <= Len(s) => ~IsLetter(s[j + n]))

(***************************************************************************)
(* services/user_manager.py : UserManager.extract_name, validate_email     *)
(***************************************************************************)
\* the literal prefixes of the first three patterns, in the order tried; the
\* first pattern's optional character is taken to be the apostrophe
NamePrefixes ==
    <<{<<"i", "'", "m", " ">>, <<"i", "m", " ">>},
      {<<"m", "y", " ", "n", "a", "m", "e", " ", "i", "s", " ">>},
      {<<"t", "h", "i", "s", " ", "i", "s", " ">>}>>

\* re.search(lit + "([A-Z][a-z]+)", s, re.IGNORECASE): the positions where a
\* literal of lits is followed by two letters or more
PrefixHits(s, lits) ==
    {i \in 1..Len(s) :
        \E lit \in lits : LitAt(s, i, lit) /\ LetterRun(s, i + Len(lit)) >= 2}

\* group(1) of the leftmost match
PrefixGroup(s, lits) ==
    LET i == CHOOSE h \in PrefixHits(s, lits) : \A g \in PrefixHits(s, lits) : h <= g
        lit == CHOOSE l \in lits : LitAt(s, i, l) /\ LetterRun(s, i + Len(l)) >= 2
        j == i + Len(lit)
    IN  SubSeq(s, j, j + LetterRun(s, j) - 1)

\* "^([A-Z][a-z]+)$" under re.IGNORECASE: a bare word of two letters or more
BareWord(s) == Len(s) >= 2 /\ \A k \in 1..Len(s) : IsLetter(s[k])

extract_name(message) ==
    IF PrefixHits(message, NamePrefixes[1]) # {}
    THEN Title(PrefixGroup(message, NamePrefixes[1]))
    ELSE IF PrefixHits(message, NamePrefixes[2]) # {}
    THEN Title(PrefixGroup(message, NamePrefixes[2]))
    ELSE IF PrefixHits(message, NamePrefixes[3]) # {}
    THEN Title(PrefixGroup(message, NamePrefixes[3]))
    ELSE IF BareWord(message) THEN Title(message)
    ELSE PyNone

\* [\w\.-]
WordDotDash(c) == IsLetter(c) \/ c \in Digits \/ c \in {"_", ".", "-"}

\* SVENConfig.EMAIL_REGEX.match(email): ^[\w\.-]+@[\w\.-]+\.[a-zA-Z]{2,}$
validate_email(email) ==
    \E a \in 2..Len(email) : \E d \in (a + 2)..(Len(email) - 2) :
        /\ email[a] = "@"
        /\ email[d] = "."
        /\ \A k \in 1..(a - 1) : WordDotDash(email[k])
        /\ \A k \in (a + 1)..(d - 1) : WordDotDash(email[k])
        /\ \A k \in (d + 1)..Len(email) : IsLetter(email[k])

(***************************************************************************)
(* routes/sms.py : the texts of inbound messages and their patterns        *)
(***************************************************************************)
SetupEmailPrefix == <<"s", "e", "t", "u", "p", " ", "e", "m", "a", "i", "l", " ">>

\* re.match(r"setup email (.+@.+\..+)", body, re.IGNORECASE): group(1), or
\* None when the body does not match
email_setup_match(body) ==
    LET n == Len(SetupEmailPrefix)
        r == SubSeq(body, n + 1, Len(body))
    IN  IF /\ LitAt(body, 1, SetupEmailPrefix)
           /\ \E a \in 2..Len(r) : \E d \in (a + 2)..(Len(r) - 1) :
                  r[a] = "@" /\ r[d] = "."
        THEN r
        ELSE PyNone

BodyHi == <<"h", "i">>
BodyCarlos == <<"C", "a", "r", "l", "o", "s">>
BodyBob == <<"B", "o", "b">>
BodySetupEmail == <<"s", "e", "t", "u", "p", " ", "e", "m", "a", "i", "l", " ", "a", "@", "b", ".", "c", "o">>
BodyDelete == <<"d", "e", "l", "e", "t", "e", " ", "m", "y", " ", "d", "a", "t", "a">>

\* the inbound message texts of the webhook's specification
Bodies == {BodyHi, BodyCarlos, BodyBob, BodySetupEmail, BodyDelete}

\* message_body.lower().strip() in ['hi', 'hello', 'hey', 'menu']
Greetings == {<<"h", "i">>, <<"h", "e", "l", "l", "o">>, <<"h", "e", "y">>, <<"m", "e", "n", "u">>}
is_greeting(body) == Lower(body) \in Greetings

is_delete_command(body) == Lower(body) = BodyDelete

(***************************************************************************)
(* The key-value store and the requests in flight.                         *)
(*   redis[k]     <<v>> when key k holds v, <<>> when it holds nothing     *)
(*   pc[w]        where request w stands; "idle" between two requests      *)
(*   stack[w]     the labels at which the callers of w's frame resume      *)
(*   loc[w]       the local variables of request w                         *)
(*   returned[w]  the last call that request w has completed               *)
(***************************************************************************)

Workers == {1, 2}

\* the keys of the one identity of the model, derived from its phone hash
ProfileKey == "sven:user:{phone_hash}:profile"
LegacyKey == "user:{phone_hash}:profile"
PendingKey == "pending:{phone_hash}"
Keys == {ProfileKey, LegacyKey, PendingKey}

\* hash_phone_number(phone) of the identity
PhoneHash == <<"phone_hash">>

\* the keys a profile dict of the model can hold
Fields == {"phone_hash", "name", "email", "children", "settings", "metadata",
           "onboarding_complete", "onboarding_state", "family_members"}

\* a dict with none of the keys
EmptyDict == [f \in Fields |-> Absent]

\* the metadata dict of a standard profile (created, last_seen,
\* onboarding_complete False, message_count 0), and the one that
\* update_user_interaction writes (last_seen, last_message_type); the time
\* stamps themselves are not modelled
StdMetadata == <<"metadata:standard">>
SeenMetadata == <<"metadata:interaction">>
NoChildren == <<"[]">>
StdSettings == <<"settings:standard">>

standard_user_profile ==
    [EmptyDict EXCEPT !["phone_hash"] = PhoneHash,
                      !["name"] = PyNone,
                      !["email"] = PyNone,
                      !["children"] = NoChildren,
                      !["settings"] = StdSettings,
                      !["metadata"] = StdMetadata]

\* dict.update(updates): the keys of updates overwrite
Update(profile, updates) ==
    [f \in Fields |-> IF updates[f] # Absent THEN updates[f] ELSE profile[f]]

\* a stored payload that is not JSON: json.loads raises on it
CorruptPayload == [f \in Fields |-> <<"corrupt">>]
Parses(data) == data # CorruptPayload

\* redis_service.get_user_profile; ok is whether the store answered
\* get_user_profile with the try/except around the read taken away: what the
\* read yields is handed on as it is
get_user_profile_unguarded(ok) ==
    IF redis[ProfileKey] # <<>>
    THEN redis[ProfileKey][1]
    ELSE standard_user_profile

get_user_profile(ok) ==
    IF ok /\ redis[ProfileKey] # <<>> /\ Parses(redis[ProfileKey][1])
    THEN redis[ProfileKey][1]
    ELSE standard_user_profile

\* config.py: the lifetimes of the stored keys, in seconds
REDIS_PROFILE_TTL == 365 * 24 * 3600
REDIS_EVENT_TTL == 300

\* SVENConfig.get_redis_ttl that answers with the profile lifetime always
get_redis_ttl_profile(key_type) == REDIS_PROFILE_TTL

get_redis_ttl(key_type) ==
    IF key_type = "profile" THEN REDIS_PROFILE_TTL
    ELSE IF key_type = "event" THEN REDIS_EVENT_TTL
    ELSE REDIS_PROFILE_TTL

\* what setex(key, ttl, value) leaves under the pending key: the value, the
\* instant at which the store drops the key, and the instant of the write
Setex(ttl, value) == <<value, now + ttl * TicksPerSec, now>>

\* redis_service.get_pending_event
get_pending_event(ok) ==
    IF ok /\ redis[PendingKey] # <<>> THEN redis[PendingKey][1] ELSE PyNone

\* UserManager.is_onboarding_complete
is_onboarding_complete(ok) ==
    Truthy(get_user_profile(ok)["onboarding_complete"])

\* what a call leaves behind when update_profile's write raises
Raised == <<"raised">>
\* a returned dict whose content the caller does not use
PyDict == <<"dict">>

LocInit ==
    [op |-> "idle", arg |-> PyNone, body |-> PyNone, context |-> EmptyDict,
     name |-> PyNone, email |-> PyNone, profile |-> EmptyDict,
     updates |-> EmptyDict, merged |-> EmptyDict, idx |-> 0,
     ret |-> PyNone, pre |-> <<>>, pending |-> <<>>, faulted |-> FALSE,
     raised |-> FALSE]

StoreInit ==
    /\ redis = [k \in Keys |-> <<>>]
    /\ pc = [w \in Workers |-> "idle"]
    /\ stack = [w \in Workers |-> <<>>]
    /\ loc = [w \in Workers |-> LocInit]
    /\ returned = [w \in Workers |->
                     [op |-> "idle", arg |-> PyNone, result |-> PyNone,
                      pre |-> <<>>, pending |-> <<>>, faulted |-> FALSE,
                      raised |-> FALSE]]

\* a store call that did not answer marks the request with faulted; raised
\* marks the request during which get_profile raised
Fault(l, ok) == IF ok THEN l ELSE [l EXCEPT !.faulted = TRUE]

\* request w goes on at label with locals l
Jump(w, label, l) ==
    /\ pc' = [pc EXCEPT ![w] = label]
    /\ loc' = [loc EXCEPT ![w] = l]
    /\ UNCHANGED <<stack, returned, limiterVars, ghostVars, cacheVars>>

\* request w calls the function that starts at label callee
Call(w, callee, resume, l) ==
    /\ pc' = [pc EXCEPT ![w] = callee]
    /\ stack' = [stack EXCEPT ![w] = <<resume>> \o @]
    /\ loc' = [loc EXCEPT ![w] = l]
    /\ UNCHANGED <<returned, limiterVars, ghostVars, cacheVars>>

\* the function request w is in returns val: to its caller, or, from the
\* outermost frame, to whoever made the request
Return(w, val, l) ==
    /\ IF stack[w] = <<>>
       THEN /\ pc' = [pc EXCEPT ![w] = "idle"]
            /\ returned' = [returned EXCEPT ![w] =
                              [op |-> l.op, arg |-> l.arg, result |-> val,
                               pre |-> l.pre, pending |-> l.pending,
                               faulted |-> l.faulted, raised |-> l.raised]]
            /\ loc' = [loc EXCEPT ![w] = LocInit]
            /\ UNCHANGED stack
       ELSE /\ pc' = [pc EXCEPT ![w] = Head(stack[w])]
            /\ stack' = [stack EXCEPT ![w] = Tail(@)]
            /\ loc' = [loc EXCEPT ![w] = [l EXCEPT !.ret = val]]
            /\ UNCHANGED returned
    /\ UNCHANGED <<limiterVars, ghostVars, cacheVars>>

\* a request begins: op(arg) enters at label; pre and pending keep the profile
\* and the pending event that the store held when it began
Begin(w, op, arg, label, l) ==
    /\ pc[w] = "idle"
    /\ pc' = [pc EXCEPT ![w] = label]
    /\ loc' = [loc EXCEPT ![w] =
                 [l EXCEPT !.op = op, !.arg = arg, !.pre = redis[ProfileKey],
                           !.pending = redis[PendingKey]]]
    /\ UNCHANGED <<stack, returned, limiterVars, ghostVars, cacheVars>>

(***************************************************************************)
(* services/redis_service.py                                               *)
(***************************************************************************)
\* get_redis_client() at the head of a function: without a client the
\* function returns failed at once
get_redis_client(w, here, next, failed) ==
    /\ pc[w] = here
    /\ \E ok \in BOOLEAN :
          IF ok THEN Jump(w, next, loc[w])
          ELSE Return(w, failed, Fault(loc[w], ok))
    /\ UNCHANGED redis

\* store_user_name(phone, name): the name is in loc[w].name
store_user_name_read(w) ==
    /\ pc[w] = "sn_read"
    /\ \E ok \in BOOLEAN :
          LET profile == get_user_profile(ok)
              l == Fault(loc[w], ok)
          IN  IF profile["metadata"] = Absent
              THEN Return(w, PyFalse, [l EXCEPT !.name = PyNone])
              ELSE Jump(w, "sn_write",
                        [l EXCEPT !.profile = [profile EXCEPT !["name"] = l.name]])
    /\ UNCHANGED redis

store_user_name_write(w) ==
    /\ pc[w] = "sn_write"
    /\ \E ok \in BOOLEAN :
          IF ok
          THEN /\ redis' = [redis EXCEPT ![ProfileKey] = <<loc[w].profile>>]
               /\ Jump(w, "sn_verify", [loc[w] EXCEPT !.profile = EmptyDict])
          ELSE /\ redis' = redis
               /\ Return(w, PyFalse,
                         [Fault(loc[w], ok) EXCEPT !.profile = EmptyDict,
                                                   !.name = PyNone])

store_user_name_verify(w) ==
    /\ pc[w] = "sn_verify"
    /\ \E ok \in BOOLEAN :
          LET l == [Fault(loc[w], ok) EXCEPT !.name = PyNone]
          IN  IF /\ ok
                 /\ redis[ProfileKey] # <<>>
                 /\ redis[ProfileKey][1]["name"] = loc[w].name
              THEN Return(w, PyTrue, l)
              ELSE Return(w, PyFalse, l)
    /\ UNCHANGED redis

\* store_user_email(phone, email_address): the address is in loc[w].email
store_user_email_read(w) ==
    /\ pc[w] = "se_read"
    /\ \E ok \in BOOLEAN :
          LET profile == get_user_profile(ok)
              l == Fault(loc[w], ok)
          IN  IF profile["metadata"] = Absent
              THEN Return(w, PyFalse, [l EXCEPT !.email = PyNone])
              ELSE Jump(w, "se_write",
                        [l EXCEPT !.profile = [profile EXCEPT !["email"] = l.email]])
    /\ UNCHANGED redis

store_user_email_write(w) ==
    /\ pc[w] = "se_write"
    /\ \E ok \in BOOLEAN :
          LET l == [Fault(loc[w], ok) EXCEPT !.profile = EmptyDict,
                                             !.email = PyNone]
          IN  IF ok
              THEN /\ redis' = [redis EXCEPT ![ProfileKey] = <<loc[w].profile>>]
                   /\ Return(w, PyTrue, l)
              ELSE /\ redis' = redis
                   /\ Return(w, PyFalse, l)

\* delete_user_data(phone): two deletes, the profile and the pending event
delete_profile(w) ==
    /\ pc[w] = "del_profile"
    /\ \E ok \in BOOLEAN :
          IF ok
          THEN /\ redis' = [redis EXCEPT ![ProfileKey] = <<>>]
               /\ Jump(w, "del_pending", loc[w])
          ELSE /\ redis' = redis
               /\ Return(w, PyFalse, Fault(loc[w], ok))

\* a delete_user_data that leaves the pending event where it is
delete_pending_omitted(w) ==
    /\ pc[w] = "del_pending"
    /\ \E ok \in BOOLEAN :
          IF ok
          THEN /\ redis' = redis
               /\ Return(w, PyTrue, loc[w])
          ELSE /\ redis' = redis
               /\ Return(w, PyFalse, Fault(loc[w], ok))

delete_pending(w) ==
    /\ pc[w] = "del_pending"
    /\ \E ok \in BOOLEAN :
          IF ok
          THEN /\ redis' = [redis EXCEPT ![PendingKey] = <<>>]
               /\ Return(w, PyTrue, loc[w])
          ELSE /\ redis' = redis
               /\ Return(w, PyFalse, Fault(loc[w], ok))

delete_user_data(w) ==
    \/ get_redis_client(w, "del_client", "del_profile", PyFalse)
    \/ delete_profile(w)
    \/ delete_pending(w)

store_user_name(w) ==
    \/ get_redis_client(w, "sn_client", "sn_read", PyFalse)
    \/ store_user_name_read(w)
    \/ store_user_name_write(w)
    \/ store_user_name_verify(w)

store_user_email(w) ==
    \/ get_redis_client(w, "se_client", "se_read", PyFalse)
    \/ store_user_email_read(w)
    \/ store_user_email_write(w)

\* store_pending_event(phone, event_data): the event is the request's arg
\* store_pending_event that writes only when no pending event is stored
store_pending_event_write_setnx(w) ==
    /\ pc[w] = "sp_write"
    /\ \E ok \in BOOLEAN :
          /\ redis' = IF ok /\ redis[PendingKey] = <<>>
                      THEN [redis EXCEPT ![PendingKey] =
                              Setex(get_redis_ttl("event"), loc[w].arg)]
                      ELSE redis
          /\ Return(w, PyNone, Fault(loc[w], ok))

store_pending_event_write(w) ==
    /\ pc[w] = "sp_write"
    /\ \E ok \in BOOLEAN :
          /\ redis' = IF ok
                      THEN [redis EXCEPT ![PendingKey] =
                              Setex(get_redis_ttl("event"), loc[w].arg)]
                      ELSE redis
          /\ Return(w, PyNone, Fault(loc[w], ok))

store_pending_event(w) ==
    \/ get_redis_client(w, "sp_client", "sp_write", PyNone)
    \/ store_pending_event_write(w)

(***************************************************************************)
(* services/user_manager.py : UserManager                                  *)
(***************************************************************************)
\* update_profile(phone, updates): the updates are in loc[w].updates
update_profile_read(w) ==
    /\ pc[w] = "up_read"
    /\ \E ok \in BOOLEAN :
          LET l == [Fault(loc[w], ok) EXCEPT
                      !.merged = Update(get_user_profile(ok), loc[w].updates)]
          IN  IF l.updates["name"] # Absent
              THEN Call(w, "sn_client", "up_email",
                        [l EXCEPT !.name = l.updates["name"]])
              ELSE Jump(w, "up_email", l)
    /\ UNCHANGED redis

update_profile_email(w) ==
    /\ pc[w] = "up_email"
    /\ IF loc[w].updates["email"] # Absent
       THEN Call(w, "se_client", "up_client",
                 [loc[w] EXCEPT !.email = loc[w].updates["email"]])
       ELSE Jump(w, "up_client", loc[w])
    /\ UNCHANGED redis

update_profile_client(w) ==
    /\ pc[w] = "up_client"
    /\ \E ok \in BOOLEAN :
          IF ok THEN Jump(w, "up_setex", loc[w])
          ELSE Return(w, PyDict,
                      [Fault(loc[w], ok) EXCEPT !.merged = EmptyDict,
                                                !.updates = EmptyDict])
    /\ UNCHANGED redis

update_profile_setex(w) ==
    /\ pc[w] = "up_setex"
    /\ \E ok \in BOOLEAN :
          LET l == [Fault(loc[w], ok) EXCEPT !.merged = EmptyDict,
                                             !.updates = EmptyDict]
          IN  IF ok
              THEN /\ redis' = [redis EXCEPT ![LegacyKey] = <<loc[w].merged>>]
                   /\ Return(w, PyDict, l)
              ELSE /\ redis' = redis
                   /\ Return(w, Raised, l)

update_profile(w) ==
    \/ update_profile_read(w)
    \/ update_profile_email(w)
    \/ update_profile_client(w)
    \/ update_profile_setex(w)

\* mark_onboarding_complete(phone): the whole profile read is the update
mark_onboarding_complete_read(w) ==
    /\ pc[w] = "mc_read"
    /\ \E ok \in BOOLEAN :
          Call(w, "up_read", "mc_return",
               [Fault(loc[w], ok) EXCEPT
                  !.updates = [get_user_profile(ok) EXCEPT
                                 !["onboarding_complete"] = PyTrue]])
    /\ UNCHANGED redis

mark_onboarding_complete_return(w) ==
    /\ pc[w] = "mc_return"
    /\ Return(w, IF loc[w].ret = Raised THEN Raised ELSE PyNone, loc[w])
    /\ UNCHANGED redis

mark_onboarding_complete(w) ==
    \/ mark_onboarding_complete_read(w)
    \/ mark_onboarding_complete_return(w)

(***************************************************************************)
(* The profile service called one request at a time: redis_service and     *)
(* UserManager, every store call free to fail.                             *)
(***************************************************************************)
\* the arguments of the calls
Names == {BodyCarlos, BodyBob}
EmailAddress == <<"a", "@", "b", ".", "c", "o">>
PendingEvent == <<"event">>
\* update_user_interaction's update and the one of test_onboarding_flow
MetadataUpdate == [EmptyDict EXCEPT !["metadata"] = SeenMetadata]
IncompleteUpdate == [EmptyDict EXCEPT !["onboarding_complete"] = PyFalse]
ProfileUpdates == {MetadataUpdate, IncompleteUpdate}
\* the name under which a request records its updates
UpdateArg(u) ==
    IF u = IncompleteUpdate THEN <<"onboarding_complete", "False">>
    ELSE <<"metadata">>

call_store_user_name(w) ==
    /\ \E n \in Names :
          Begin(w, "store_user_name", n, "sn_client", [LocInit EXCEPT !.name = n])
    /\ UNCHANGED redis

call_store_user_email(w) ==
    /\ Begin(w, "store_user_email", EmailAddress, "se_client",
             [LocInit EXCEPT !.email = EmailAddress])
    /\ UNCHANGED redis

call_store_pending_event(w) ==
    /\ Begin(w, "store_pending_event", PendingEvent, "sp_client", LocInit)
    /\ UNCHANGED redis

call_delete_user_data(w) ==
    /\ Begin(w, "delete_user_data", PyNone, "del_client", LocInit)
    /\ UNCHANGED redis

call_update_profile(w) ==
    /\ \E u \in ProfileUpdates :
          Begin(w, "update_profile", UpdateArg(u), "up_read",
                [LocInit EXCEPT !.updates = u])
    /\ UNCHANGED redis

call_mark_onboarding_complete(w) ==
    /\ Begin(w, "mark_onboarding_complete", PyNone, "mc_read", LocInit)
    /\ UNCHANGED redis

\* the message hashes of the model
Hashes == {<<"md5:hi">>, <<"md5:lunch">>}

\* no cache holds anything, and get_cached_response was never called
CacheInit ==
    /\ cache = <<>>
    /\ response_cache = [h \in Hashes |-> <<>>]
    /\ lru_cache = [h \in Hashes |-> <<>>]

Init == LimiterInit /\ StoreInit /\ CacheInit

Next ==
    \/ call_store_user_name(1)
    \/ call_store_user_email(1)
    \/ call_store_pending_event(1)
    \/ call_delete_user_data(1)
    \/ call_update_profile(1)
    \/ call_mark_onboarding_complete(1)
    \/ store_user_name(1)
    \/ store_user_email(1)
    \/ store_pending_event(1)
    \/ delete_user_data(1)
    \/ update_profile(1)
    \/ mark_onboarding_complete(1)

Spec == Init /\ [][Next]_vars

\* request w has just completed op without any store call failing
Completed(w, op) ==
    /\ pc[w] = "idle"
    /\ returned[w].op = op
    /\ ~returned[w].faulted

\* C3: after delete_user_data returns success, get_user_profile returns a
\* fresh default profile with no name and no email, and get_pending_event
\* returns nothing, whatever was stored before the call
C3_ErasureCompleteness ==
    (/\ pc[1] = "idle"
     /\ returned[1].op = "delete_user_data"
     /\ returned[1].result = PyTrue)
        => /\ get_user_profile(TRUE) = standard_user_profile
           /\ get_user_profile(TRUE)["name"] = PyNone
           /\ get_user_profile(TRUE)["email"] = PyNone
           /\ get_pending_event(TRUE) = PyNone

\* a successful delete_user_data of an identity that had a pending event
\* and a profile with a name and an email when the call began
C3_Witness ==
    /\ pc[1] = "idle"
    /\ returned[1].op = "delete_user_data"
    /\ returned[1].result = PyTrue
    /\ returned[1].pre # <<>>
    /\ returned[1].pre[1]["name"] # PyNone
    /\ returned[1].pre[1]["email"] # PyNone
    /\ returned[1].pending # <<>>

\* C4: after a successful erasure no profile record and no pending record
\* of the identity remains in the store, whichever operation wrote it, and
\* the store never holds two profile records of one identity
C4_FullErasure ==
    /\ (/\ pc[1] = "idle"
        /\ returned[1].op = "delete_user_data"
        /\ returned[1].result = PyTrue)
           => \A k \in Keys : redis[k] = <<>>
    /\ ~(redis[ProfileKey] # <<>> /\ redis[LegacyKey] # <<>>)

\* C10: after mark_onboarding_complete, is_onboarding_complete returns true;
\* after update_profile(phone, {onboarding_complete: False}) it returns false
C10_OnboardingFlag ==
    /\ Completed(1, "mark_onboarding_complete") => is_onboarding_complete(TRUE)
    /\ (Completed(1, "update_profile") /\ returned[1].arg = UpdateArg(IncompleteUpdate))
          => ~is_onboarding_complete(TRUE)

\* C33: store_user_name and store_user_email change their target field and
\* the metadata (last_seen) only: every other field of a profile that was
\* stored before the call is the same after it, also when the read inside the
\* call fails and the write succeeds.
C33_OtherFieldsKept ==
    \A target \in {"name", "email"} :
        (/\ pc[1] = "idle"
         /\ returned[1].op = "store_user_" \o target
         /\ returned[1].pre # <<>>)
            => /\ redis[ProfileKey] # <<>>
               /\ \A f \in Fields \ {target, "metadata"} :
                     redis[ProfileKey][1][f] = returned[1].pre[1][f]

\* whether every time kept in window d is less than one window before t0
Fresh(d, t0) == \A i \in 1..Len(d) : t0 - d[i] < Window

\* C34: when a call of AntiAbuseLimiter.allow returns, whatever it answers,
\* the message window and the failure window of the identity it was called
\* for hold no time that lies a full window or more before the call
C34_WindowsPruned ==
    [][now' = now =>
          /\ Fresh(msg_minute'[lastAllow'.phone], now)
          /\ Fresh(fail_minute'[lastAllow'.phone], now)]_vars

\* C11: a profile written through update_profile reads back through
\* get_profile: once update_profile(phone, updates) has completed without a
\* store failure, get_profile(phone) holds, for every field the updates
\* carried, the value that was written.
C11_RoundTrip ==
    Completed(1, "update_profile") =>
        \A u \in ProfileUpdates :
            returned[1].arg = UpdateArg(u) =>
                \A f \in Fields :
                    u[f] # Absent => get_user_profile(TRUE)[f] = u[f]

(***************************************************************************)
(* pending events: stored with a lifetime, read, cleared, and dropped by   *)
(* the store when their lifetime is over; and a profile payload gone bad   *)
(***************************************************************************)
PendingEvents == {PendingEvent, <<"event", "2">>}

call_store_pending_events(w) ==
    /\ \E e \in PendingEvents :
          Begin(w, "store_pending_event", e, "sp_client", LocInit)
    /\ UNCHANGED redis

call_clear_pending_event(w) ==
    /\ Begin(w, "clear_pending_event", PyNone, "cp_client", LocInit)
    /\ UNCHANGED redis

\* redis_service.clear_pending_event
clear_pending_event(w) ==
    \/ get_redis_client(w, "cp_client", "cp_delete", PyNone)
    \/ /\ pc[w] = "cp_delete"
       /\ \E ok \in BOOLEAN :
             /\ redis' = IF ok THEN [redis EXCEPT ![PendingKey] = <<>>] ELSE redis
             /\ Return(w, PyNone, Fault(loc[w], ok))

\* the store at instant t: a key written with setex is gone once its
\* lifetime is over
Expire(t) ==
    [k \in Keys |->
        IF k = PendingKey /\ redis[k] # <<>> /\ redis[k][2] <= t
        THEN <<>> ELSE redis[k]]

\* time passes, and the store drops what has expired
TimePasses ==
    /\ \E t \in Instants : t > now /\ now' = t /\ redis' = Expire(t)
    /\ UNCHANGED <<msg_minute, fail_minute, banned, identical_msgs, lastAllow>>
    /\ UNCHANGED <<ghostVars, cacheVars, pc, stack, loc, returned>>

\* the stored profile payload of the identity is damaged from outside the
\* program: what is read back is no longer JSON
profile_corrupted ==
    /\ redis[ProfileKey] # <<>>
    /\ Parses(redis[ProfileKey][1])
    /\ redis' = [redis EXCEPT ![ProfileKey] = <<CorruptPayload>>]
    /\ UNCHANGED <<limiterVars, ghostVars, cacheVars, pc, stack, loc, returned>>

PendingNext ==
    \/ call_store_pending_events(1)
    \/ call_clear_pending_event(1)
    \/ call_store_user_name(1)
    \/ store_pending_event(1)
    \/ clear_pending_event(1)
    \/ store_user_name(1)
    \/ profile_corrupted
    \/ TimePasses

PendingSpec == Init /\ [][PendingNext]_vars

\* C13: at most one pending event per identity: when store_pending_event has
\* completed, get_pending_event returns the payload of that call, whatever
\* was pending before, until the store drops it at the end of its lifetime;
\* and after clear_pending_event has completed it returns nothing.
C13_LatestPending ==
    /\ Completed(1, "store_pending_event")
          => \/ get_pending_event(TRUE) = returned[1].arg
             \/ /\ redis[PendingKey] = <<>>
                /\ now >= REDIS_EVENT_TTL * TicksPerSec
    /\ Completed(1, "clear_pending_event") => get_pending_event(TRUE) = PyNone

\* a second store replaced a pending event with a different payload
C13_Witness ==
    /\ Completed(1, "store_pending_event")
    /\ returned[1].pending # <<>>
    /\ returned[1].pending[1] # returned[1].arg
    /\ get_pending_event(TRUE) = returned[1].arg

\* C14: a pending event lives REDIS_EVENT_TTL seconds: once more than that
\* has passed since the last store, get_pending_event returns nothing.
C14_PendingExpires ==
    redis[PendingKey] # <<>>
        => now - redis[PendingKey][3] <= REDIS_EVENT_TTL * TicksPerSec

\* an event was stored, its lifetime passed without a new store, and it is gone
C14_Witness ==
    /\ Completed(1, "store_pending_event")
    /\ now >= REDIS_EVENT_TTL * TicksPerSec
    /\ get_pending_event(TRUE) = PyNone

\* C18: get_user_profile never fails outward: with the store unavailable, the
\* record absent or its payload corrupt, it returns the default profile, with
\* no name, no email, onboarding incomplete and a message count of zero.
C18_NeverFails ==
    \A ok \in BOOLEAN :
        (~ok \/ redis[ProfileKey] = <<>> \/ ~Parses(redis[ProfileKey][1]))
            => /\ get_user_profile(ok) = standard_user_profile
               /\ get_user_profile(ok)["name"] = PyNone
               /\ get_user_profile(ok)["email"] = PyNone
               /\ get_user_profile(ok)["metadata"] = StdMetadata

\* the stored payload of a profile that had a name is corrupt
C18_Witness ==
    /\ redis[ProfileKey] # <<>>
    /\ ~Parses(redis[ProfileKey][1])
    /\ get_user_profile(TRUE)["name"] = PyNone

(***************************************************************************)
(* services/user_context_service.py and routes/sms.py : sms_webhook, for a *)
(* signed request from TestPhone in a configured environment               *)
(***************************************************************************)
\* the texts of the replies
Reply ==
    [too_many_requests |-> <<"Too many requests. Please wait {wait} seconds.">>,
     nice_to_meet |-> <<"Nice to meet you, {extracted_name}!">>,
     name_prompt |-> <<"What's your first name?">>,
     welcome_back |-> <<"Welcome back, {name}!">>,
     email_set |-> <<"Great! Your email {email} is now set up.">>,
     email_invalid |-> <<"That doesn't look like a valid email.">>,
     deleted |-> <<"All your data has been deleted.">>,
     menu |-> <<"Hey {user_name}! Here's your menu: ...">>,
     service_unavailable |-> <<"Service temporarily unavailable (ID: {error_id})">>,
     other |-> <<"{result}">>]

\* the most requests the webhook serves in one behaviour
MaxRequests == 4

call_sms_webhook(w) ==
    /\ Len(msg_minute[TestPhone]) < MaxRequests
    /\ \E body \in Bodies :
          Begin(w, "sms_webhook", body, "wh_allow", [LocInit EXCEPT !.body = body])
    /\ UNCHANGED redis

\* UserContextService.update_user_interaction, then the webhook goes on at
\* resume
update_user_interaction(w, resume, l) ==
    Call(w, "up_read", resume, [l EXCEPT !.updates = MetadataUpdate])

\* the webhook with the limiter's verdict ignored
sms_webhook_allow_ignored(w) ==
    /\ pc[w] = "wh_allow"
    /\ AllowCall(TestPhone, loc[w].body, TRUE)
    /\ IF TRUE
       THEN /\ pc' = [pc EXCEPT ![w] = "wh_context"]
            /\ UNCHANGED <<loc, returned>>
       ELSE /\ pc' = [pc EXCEPT ![w] = "idle"]
            /\ returned' = [returned EXCEPT ![w] =
                              [op |-> loc[w].op, arg |-> loc[w].arg,
                               result |-> Reply.too_many_requests,
                               pre |-> loc[w].pre, pending |-> loc[w].pending,
                               faulted |-> loc[w].faulted,
                               raised |-> loc[w].raised]]
            /\ loc' = [loc EXCEPT ![w] = LocInit]
    /\ UNCHANGED <<redis, stack>>

\* AntiAbuseLimiter.allow and the rejection
sms_webhook_allow(w) ==
    /\ pc[w] = "wh_allow"
    /\ AllowCall(TestPhone, loc[w].body, TRUE)
    /\ IF lastAllow'.allowed
       THEN /\ pc' = [pc EXCEPT ![w] = "wh_context"]
            /\ UNCHANGED <<loc, returned>>
       ELSE /\ pc' = [pc EXCEPT ![w] = "idle"]
            /\ returned' = [returned EXCEPT ![w] =
                              [op |-> loc[w].op, arg |-> loc[w].arg,
                               result |-> Reply.too_many_requests,
                               pre |-> loc[w].pre, pending |-> loc[w].pending,
                               faulted |-> loc[w].faulted,
                               raised |-> loc[w].raised]]
            /\ loc' = [loc EXCEPT ![w] = LocInit]
    /\ UNCHANGED <<redis, stack>>

\* get_user_context, the name check and the onboarding redirect
sms_webhook_context(w) ==
    /\ pc[w] = "wh_context"
    /\ \E ok \in BOOLEAN :
          LET profile == get_user_profile(ok)
              l == [Fault(loc[w], ok) EXCEPT !.context = profile]
              extracted_name == extract_name(l.body)
          IN  IF ~Truthy(profile["name"]) /\ Truthy(extracted_name)
              THEN Call(w, "sn_client", "wh_name_stored",
                        [l EXCEPT !.name = extracted_name])
              ELSE IF ~Truthy(profile["name"])
              THEN update_user_interaction(w, "wh_onboarding", l)
              ELSE update_user_interaction(w, "wh_returning", l)
    /\ UNCHANGED redis

sms_webhook_name(w) ==
    \/ /\ pc[w] = "wh_name_stored"
       /\ update_user_interaction(w, "wh_name_reply", loc[w])
       /\ UNCHANGED redis
    \/ /\ pc[w] = "wh_name_reply"
       /\ Return(w, Reply.nice_to_meet, loc[w])
       /\ UNCHANGED redis
    \/ /\ pc[w] = "wh_onboarding"
       /\ Return(w, Reply.name_prompt, loc[w])
       /\ UNCHANGED redis

\* a returning user: the greeting, the email setup and the erasure command
sms_webhook_returning(w) ==
    /\ pc[w] = "wh_returning"
    /\ LET body == loc[w].body
           new_email == email_setup_match(body)
       IN  IF is_greeting(body)
           THEN Return(w, Reply.welcome_back, loc[w])
           ELSE IF new_email # PyNone
           THEN IF loc[w].context["email"] = new_email
                THEN Return(w, Reply.email_set, loc[w])
                ELSE IF validate_email(new_email)
                THEN Call(w, "se_client", "wh_email_set",
                          [loc[w] EXCEPT !.email = new_email])
                ELSE Return(w, Reply.email_invalid, loc[w])
           ELSE IF is_delete_command(body)
           THEN Call(w, "del_client", "wh_deleted", loc[w])
           ELSE Return(w, Reply.other, loc[w])
    /\ UNCHANGED redis

sms_webhook_command(w) ==
    \/ /\ pc[w] = "wh_email_set"
       /\ Return(w, Reply.email_set, loc[w])
       /\ UNCHANGED redis
    \/ /\ pc[w] = "wh_deleted"
       /\ Return(w, Reply.deleted, loc[w])
       /\ UNCHANGED redis

sms_webhook(w) ==
    \/ sms_webhook_allow(w)
    \/ sms_webhook_context(w)
    \/ sms_webhook_name(w)
    \/ sms_webhook_returning(w)
    \/ sms_webhook_command(w)

\* OnboardingStateManager.get_current_state
get_current_state ==
    IF redis[ProfileKey] = <<>> THEN <<"need_name">>
    ELSE IF ~Truthy(redis[ProfileKey][1]["name"]) THEN <<"need_name">>
    ELSE IF ~Truthy(redis[ProfileKey][1]["email"]) THEN <<"need_email">>
    ELSE IF Truthy(redis[ProfileKey][1]["onboarding_complete"]) THEN <<"complete">>
    ELSE <<"need_email">>

WebNext ==
    \/ call_sms_webhook(1)
    \/ sms_webhook(1)
    \/ store_user_name(1)
    \/ store_user_email(1)
    \/ delete_user_data(1)
    \/ update_profile(1)

WebSpec == Init /\ [][WebNext]_vars

\* the webhook has answered request w
Answered(w) == pc[w] = "idle" /\ returned[w].op = "sms_webhook"

\* C5: an identity with no stored profile sends "hi": the reply is the
\* prompt for the first name and the profile has no name afterwards
C5_FirstContact ==
    (/\ Answered(1)
     /\ ~returned[1].faulted
     /\ returned[1].arg = BodyHi
     /\ returned[1].pre = <<>>)
        => /\ returned[1].result = Reply.name_prompt
           /\ ~Truthy(get_user_profile(TRUE)["name"])

\* C6: once the profile has a name, a message other than the erasure
\* command neither re-triggers name collection nor overwrites the name,
\* also when a store call fails while the message is handled
C6_NameKept ==
    (/\ Answered(1)
     /\ returned[1].pre # <<>>
     /\ ~is_delete_command(returned[1].arg))
        => (Truthy(returned[1].pre[1]["name"])
              => /\ returned[1].result \notin {Reply.name_prompt, Reply.nice_to_meet}
                 /\ get_user_profile(TRUE)["name"] = returned[1].pre[1]["name"])

\* C9: an identity with a name and no email sends "setup email <address>":
\* the address is stored, the onboarding state is complete and
\* onboarding_complete is true
C9_EmailCompletes ==
    (/\ Answered(1)
     /\ ~returned[1].faulted
     /\ returned[1].arg = BodySetupEmail
     /\ returned[1].pre # <<>>)
        => ((Truthy(returned[1].pre[1]["name"]) /\ ~Truthy(returned[1].pre[1]["email"]))
              => /\ get_user_profile(TRUE)["email"] = EmailAddress
                 /\ get_current_state = <<"complete">>
                 /\ is_onboarding_complete(TRUE))

(***************************************************************************)
(* the webhook with a pending event in the store: a confirmation, an email *)
(* setup without an address, and requests that the limiter rejects         *)
(***************************************************************************)
BodyYes == <<"y", "e", "s">>
BodyBadEmail == <<"s", "e", "t", "u", "p", " ", "e", "m", "a", "i", "l", " ",
                  "n", "o", "t", "a", "n", "e", "m", "a", "i", "l">>
ReplyBodies == {BodyYes, BodyBadEmail}

\* the most messages of a behaviour that reach the limiter's bookkeeping
MaxReplies == 5

call_sms_reply(w) ==
    /\ Len(msg_minute[TestPhone]) < MaxReplies
    /\ \E body \in ReplyBodies :
          Begin(w, "sms_webhook", body, "wh_allow", [LocInit EXCEPT !.body = body])
    /\ UNCHANGED redis

ReplyNext ==
    \/ call_sms_reply(1)
    \/ call_store_pending_event(1)
    \/ sms_webhook_allow(1)
    \/ sms_webhook_context(1)
    \/ sms_webhook_name(1)
    \/ sms_webhook_returning(1)
    \/ store_user_name(1)
    \/ update_profile(1)
    \/ store_pending_event(1)

ReplySpec == Init /\ [][ReplyNext]_vars

\* C12: an identity with a pending event answers "yes" inside the event's
\* lifetime: when the webhook has answered, without a store failure, the
\* event has been handed on and is gone: get_pending_event returns nothing.
C12_YesConfirms ==
    (/\ Answered(1)
     /\ ~returned[1].faulted
     /\ returned[1].arg = BodyYes
     /\ returned[1].pending # <<>>)
        => get_pending_event(TRUE) = PyNone

\* C19: when the limiter rejects a message, the webhook answers with the
\* backoff text at once and does nothing else: the step of the rejection ends
\* the request and leaves every stored record as it was.
C19_RejectionOnly ==
    [][(pc[1] = "wh_allow" /\ ~lastAllow'.allowed)
          => /\ pc'[1] = "idle"
             /\ returned'[1].result = Reply.too_many_requests
             /\ redis' = redis]_vars

\* a message of an identity with a stored profile and a pending event has
\* been rejected
C19_Witness ==
    /\ Answered(1)
    /\ returned[1].result = Reply.too_many_requests
    /\ returned[1].pre # <<>>
    /\ returned[1].pending # <<>>
    /\ redis[ProfileKey] = returned[1].pre
    /\ redis[PendingKey] = returned[1].pending

\* C20: "setup email notanemail", once admitted by the limiter, is answered
\* with the invalid-email text, and no step of the request changes a stored
\* record.
C20_InvalidEmail ==
    [][(/\ loc[1].op = "sms_webhook"
        /\ loc[1].body = BodyBadEmail
        /\ pc[1] \notin {"idle", "wh_allow"})
          => /\ redis' = redis
             /\ pc'[1] = "idle" => returned'[1].result = Reply.email_invalid]_vars

(***************************************************************************)
(* utils/command_matcher.py : CommandMatcher.match, with                   *)
(* difflib.SequenceMatcher(None, a, b).ratio() computed as difflib does    *)
(***************************************************************************)
\* CommandMatcher.command_variations, in the order of the dict: a string is
\* the tuple of its code points
command_variations ==
    <<
      [command |-> <<"m", "e", "n", "u">>,
       variants |->
         <<<<"m", "e", "n", "u">>, <<"m", "e", "m", "u">>,
           <<"m", "e", "n", "u", "s">>, <<"m", "e", "n">>,
           <<"m", "n", "e", "u">>, <<"m", "n", "u">>, <<"U+1F4C5">>,
           <<"m", "a", "i", "n", " ", "m", "e", "n", "u">>,
           <<"b", "a", "c", "k", " ", "t", "o", " ", "m", "e", "n", "u">>,
           <<"b", "a", "c", "k">>>>],
      [command |-> <<"h", "e", "l", "p">>,
       variants |->
         <<<<"h", "e", "l", "p">>, <<"h", "l", "e", "p">>,
           <<"h", "a", "l", "p">>, <<"h", "e", "p">>,
           <<"a", "s", "s", "i", "s", "t">>,
           <<"s", "u", "p", "p", "o", "r", "t">>, <<"?">>,
           <<"i", "n", "f", "o">>,
           <<"i", "n", "f", "o", "r", "m", "a", "t", "i", "o", "n">>>>],
      [command |-> <<"s", "e", "t", "t", "i", "n", "g", "s">>,
       variants |->
         <<<<"s", "e", "t", "t", "i", "n", "g", "s">>,
           <<"s", "e", "t", "t", "i", "n", "g">>,
           <<"s", "e", "t", "i", "n", "g", "s">>,
           <<"s", "e", "t", "i", "n", "g">>, <<"U+2699", "U+FE0F">>,
           <<"c", "o", "n", "f", "i", "g", "u", "r", "e">>,
           <<"c", "o", "n", "f", "i", "g">>,
           <<"p", "r", "e", "f", "e", "r", "e", "n", "c", "e", "s">>,
           <<"p", "r", "e", "f", "s">>, <<"s", "e", "t", " ", "u", "p">>,
           <<"s", "e", "t", "u", "p">>, <<"s", "e", "t", "p", "u">>,
           <<"s", "e", "t", "p">>, <<"s", "e", "t", "-", "u", "p">>>>],
      [command |-> <<"b", "a", "c", "k">>,
       variants |->
         <<<<"b", "a", "c", "k">>, <<"b", "a", "k">>, <<"b", "c", "k">>,
           <<"r", "e", "t", "u", "r", "n">>,
           <<"g", "o", " ", "b", "a", "c", "k">>,
           <<"p", "r", "e", "v", "i", "o", "u", "s">>>>],
      [command |-> <<"y", "e", "s">>,
       variants |->
         <<<<"y", "e", "s">>, <<"y">>, <<"y", "e">>, <<"y", "s", "e">>,
           <<"y", "s">>, <<"U+1F44D">>, <<"o", "k">>,
           <<"o", "k", "a", "y">>,
           <<"a", "f", "f", "i", "r", "m", "a", "t", "i", "v", "e">>,
           <<"y", "e", "p">>, <<"c", "o", "r", "r", "e", "c", "t">>,
           <<"r", "i", "g", "h", "t">>, <<"s", "u", "r", "e">>,
           <<"y", "a", "h">>, <<"y", "a">>, <<"y", "u", "p">>,
           <<"o", "f", " ", "c", "o", "u", "r", "s", "e">>,
           <<"a", "l", "r", "i", "g", "h", "t">>,
           <<"a", "l", "l", " ", "r", "i", "g", "h", "t">>,
           <<"c", "o", "n", "f", "i", "r", "m">>, <<"d", "o", "n", "e">>,
           <<"g", "o">>>>],
      [command |-> <<"c", "o", "n", "f", "i", "r", "m">>,
       variants |->
         <<<<"c", "o", "n", "f", "i", "r", "m">>,
           <<"c", "n", "o", "f", "i", "r", "m">>,
           <<"c", "o", "n", "f", "r", "i", "m">>, <<"U+1F44D">>,
           <<"o", "k">>, <<"a", "c", "c", "e", "p", "t">>,
           <<"d", "o", "n", "e">>, <<"c", "o", "r", "r", "e", "c", "t">>,
           <<"r", "i", "g", "h", "t">>>>],
      [command |-> <<"n", "o">>,
       variants |->
         <<<<"n", "o">>, <<"n">>, <<"n", "o", "p", "e">>,
           <<"n", "a", "h">>, <<"U+274C">>,
           <<"c", "a", "n", "c", "e", "l">>, <<"n", "o", "t">>,
           <<"w", "r", "o", "n", "g">>, <<"s", "t", "o", "p">>,
           <<"a", "b", "o", "r", "t">>, <<"n", "e", "v", "e", "r">>,
           <<"n", "o", " ", "w", "a", "y">>,
           <<"i", "n", "c", "o", "r", "r", "e", "c", "t">>,
           <<"r", "e", "m", "o", "v", "e">>, <<"c", "l", "e", "a", "r">>,
           <<"r", "e", "s", "e", "t">>>>],
      [command |-> <<"c", "a", "n", "c", "e", "l">>,
       variants |->
         <<<<"c", "a", "n", "c", "e", "l">>, <<"c", "a", "n", "e", "l">>,
           <<"c", "n", "a", "c", "e", "l">>, <<"U+274C">>,
           <<"s", "t", "o", "p">>, <<"a", "b", "o", "r", "t">>,
           <<"n", "o">>, <<"r", "e", "m", "o", "v", "e">>,
           <<"c", "l", "e", "a", "r">>, <<"r", "e", "s", "e", "t">>>>],
      [command |-> <<"w", "r", "o", "n", "g">>,
       variants |->
         <<<<"w", "r", "o", "n", "g">>,
           <<"n", "o", "t", " ", "r", "i", "g", "h", "t">>,
           <<"i", "n", "c", "o", "r", "r", "e", "c", "t">>,
           <<"n", "o", "p", "e">>, <<"U+274C">>>>],
      [command |-> <<"s", "e", "t", "u", "p">>,
       variants |->
         <<<<"s", "e", "t", "u", "p">>, <<"s", "e", "t", " ", "u", "p">>,
           <<"s", "e", "t", "p", "u">>,
           <<"c", "o", "n", "f", "i", "g", "u", "r", "e">>,
           <<"c", "o", "n", "f", "i", "g">>,
           <<"s", "e", "t", "-", "u", "p">>,
           <<"s", "e", "t", "t", "i", "n", "g", "s">>,
           <<"U+2699", "U+FE0F">>>>],
      [command |-> <<"d", "e", "l", "e", "t", "e">>,
       variants |->
         <<<<"d", "e", "l", "e", "t", "e">>,
           <<"r", "e", "m", "o", "v", "e">>, <<"c", "l", "e", "a", "r">>,
           <<"r", "e", "s", "e", "t">>, <<"e", "r", "a", "s", "e">>,
           <<"s", "t", "a", "r", "t", " ", "o", "v", "e", "r">>,
           <<"w", "i", "p", "e">>>>]
    >>

\* CommandMatcher.emoji_map
emoji_map ==
    <<[emoji |-> <<"U+1F44D">>, command |-> <<"y", "e", "s">>],
      [emoji |-> <<"U+274C">>, command |-> <<"n", "o">>],
      [emoji |-> <<"U+1F4C5">>, command |-> <<"m", "e", "n", "u">>],
      [emoji |-> <<"U+2699", "U+FE0F">>, command |-> <<"s", "e", "t", "t", "i", "n", "g", "s">>]>>

\* str.strip: leading and trailing blanks removed
RECURSIVE Strip(_)
Strip(s) ==
    IF s = <<>> THEN s
    ELSE IF Head(s) = " " THEN Strip(Tail(s))
    ELSE IF s[Len(s)] = " " THEN Strip(SubSeq(s, 1, Len(s) - 1))
    ELSE s

\* the element of a set of one element: Only({e(x) : x \in {v}}) is e(v) with
\* v evaluated once
Only(S) == CHOOSE x \in S : TRUE

\* the length of the run on which a from i and b from j agree, inside
\* a[i .. ahi-1] and b[j .. bhi-1]
RunLen(a, b, i, j, ahi, bhi) ==
    CHOOSE k \in 0..(IF ahi - i < bhi - j THEN ahi - i ELSE bhi - j) :
       /\ \A t \in 0..(k - 1) : a[i + t] = b[j + t]
       /\ \/ k = (IF ahi - i < bhi - j THEN ahi - i ELSE bhi - j)
          \/ a[i + k] # b[j + k]

\* of the blocks <<i, j, size>> the longest, of those the one that starts
\* earliest in a, of those the one that starts earliest in b
LongestFirst(blocks) ==
    CHOOSE m \in blocks :
       \A u \in blocks :
          \/ m[3] > u[3]
          \/ m[3] = u[3] /\ m[1] < u[1]
          \/ m[3] = u[3] /\ m[1] = u[1] /\ m[2] <= u[2]

\* SequenceMatcher.find_longest_match(alo, ahi, blo, bhi) without junk
find_longest_match(a, b, alo, ahi, blo, bhi) ==
    Only({LongestFirst(blocks) :
            blocks \in {{<<i, j, RunLen(a, b, i, j, ahi, bhi)>> :
                           i \in alo..(ahi - 1), j \in blo..(bhi - 1)}}})

\* the sum of the sizes of get_matching_blocks between a[alo .. ahi-1] and
\* b[blo .. bhi-1]: the longest block m, then the same to its left and right
RECURSIVE matching_size(_, _, _, _, _, _)
RECURSIVE matching_around(_, _, _, _, _, _, _)
matching_around(a, b, alo, ahi, blo, bhi, m) ==
    IF m[3] = 0 THEN 0
    ELSE m[3]
         + matching_size(a, b, alo, m[1], blo, m[2])
         + matching_size(a, b, m[1] + m[3], ahi, m[2] + m[3], bhi)
matching_size(a, b, alo, ahi, blo, bhi) ==
    IF alo >= ahi \/ blo >= bhi THEN 0
    ELSE Only({matching_around(a, b, alo, ahi, blo, bhi, m) :
                 m \in {find_longest_match(a, b, alo, ahi, blo, bhi)}})

\* SequenceMatcher(None, a, b).ratio() = 2.0 * matches / (len(a) + len(b)), as
\* the fraction <<numerator, denominator>>; 1.0 for two empty strings
ratio(a, b) ==
    IF Len(a) + Len(b) = 0 THEN <<1, 1>>
    ELSE <<2 * matching_size(a, b, 1, Len(a) + 1, 1, Len(b) + 1), Len(a) + Len(b)>>

\* x > y for two fractions
Greater(x, y) == x[1] * y[2] > y[1] * x[2]

\* best_command, best_score and best_variant before the loops
NoBest == [command |-> PyNone, variant |-> PyNone, score |-> <<0, 1>>]

\* the inner loop of match with the test score >= best_score
RECURSIVE best_variant_last(_, _, _, _)
best_variant_last(user_input, cv, k, best) ==
    IF k > Len(cv.variants) THEN best
    ELSE Only({best_variant_last(user_input, cv, k + 1, next) :
                 next \in {IF ~Greater(best.score, score)
                           THEN [command |-> cv.command,
                                 variant |-> cv.variants[k], score |-> score]
                           ELSE best :
                           score \in {ratio(user_input, cv.variants[k])}}})

\* for variant in variants, from the k-th variant on
RECURSIVE best_variant(_, _, _, _)
best_variant(user_input, cv, k, best) ==
    IF k > Len(cv.variants) THEN best
    ELSE Only({best_variant(user_input, cv, k + 1, next) :
                 next \in {IF Greater(score, best.score)
                           THEN [command |-> cv.command,
                                 variant |-> cv.variants[k], score |-> score]
                           ELSE best :
                           score \in {ratio(user_input, cv.variants[k])}}})

\* for command, variants in self.command_variations.items(), from the n-th
\* command on
RECURSIVE best_match(_, _, _)
best_match(user_input, n, best) ==
    IF n > Len(command_variations) THEN best
    ELSE Only({best_match(user_input, n + 1, next) :
                 next \in {best_variant(user_input, cv, 1, best) :
                             cv \in {command_variations[n]}}})

\* f"I think you meant '{command.capitalize()}'!"
Correction(command) ==
    <<"I", " ", "t", "h", "i", "n", "k", " ", "y", "o", "u", " ",
      "m", "e", "a", "n", "t", " ", "'">> \o Title(command) \o <<"'", "!">>
NoCloseMatch == <<"No close command match found.">>

MatchResult(command, confidence, correction) ==
    [command |-> command, confidence |-> confidence, correction |-> correction]

\* match once user_input = user_input.strip().lower() and the emoji are done
match_best(user_input, best) ==
    IF Greater(best.score, <<72, 100>>)
    THEN MatchResult(best.command, best.score,
                     IF user_input # best.variant
                     THEN Correction(best.command) ELSE PyNone)
    ELSE MatchResult(PyNone, best.score, NoCloseMatch)

match_lower(user_input) ==
    IF \E e \in 1..Len(emoji_map) : emoji_map[e].emoji = user_input
    THEN LET e == CHOOSE e \in 1..Len(emoji_map) : emoji_map[e].emoji = user_input
         IN  MatchResult(emoji_map[e].command, <<1, 1>>,
                         Correction(emoji_map[e].command))
    ELSE Only({match_best(user_input, best) :
                 best \in {best_match(user_input, 1, NoBest)}})

\* CommandMatcher.match(user_input)
match(original_input) ==
    Only({match_lower(user_input) : user_input \in {Lower(Strip(original_input))}})

\* the inputs of match: the command names, the documented typos, two other
\* variants, a near miss, an emoji, a padded word and a word that is no command
CommandNames == {command_variations[n].command : n \in 1..Len(command_variations)}
DocumentedTypos ==
    {[typo |-> <<"m", "e", "m", "u">>, command |-> <<"m", "e", "n", "u">>],
     [typo |-> <<"h", "a", "l", "p">>, command |-> <<"h", "e", "l", "p">>],
     [typo |-> <<"m", "e", "n", "u", "e">>, command |-> <<"m", "e", "n", "u">>],
     [typo |-> <<"s", "e", "t", "i", "n", "g", "s">>, command |-> <<"s", "e", "t", "t", "i", "n", "g", "s">>]}
MatchInputs ==
    CommandNames \cup {t.typo : t \in DocumentedTypos}
        \cup {<<"o", "k">>, <<"h", "l", "p">>, <<"x", "y", "z">>, <<"M", "e", "n", "u", " ">>, <<"U+1F44D">>, <<"b", "a", "k">>}

call_match(w) ==
    /\ \E input \in MatchInputs :
          Begin(w, "match", input, "cm_match", [LocInit EXCEPT !.body = input])
    /\ UNCHANGED redis

command_matcher_match(w) ==
    /\ pc[w] = "cm_match"
    /\ Return(w, match(loc[w].body), loc[w])
    /\ UNCHANGED redis

MatchNext ==
    \/ call_match(1)
    \/ command_matcher_match(1)

MatchSpec == Init /\ [][MatchNext]_vars

\* C22: for every command name, match(name) returns that command with
\* confidence 1.0.
C22_CanonicalNames ==
    (Completed(1, "match") /\ returned[1].arg \in CommandNames)
        => /\ returned[1].result.command = returned[1].arg
           /\ returned[1].result.confidence[1] = returned[1].result.confidence[2]

\* C23: for each documented typo, match returns the intended command and the
\* correction that names it, "I think you meant '<Command>'!".
C23_TypoCorrections ==
    Completed(1, "match") =>
        \A t \in DocumentedTypos :
            returned[1].arg = t.typo
                => /\ returned[1].result.command = t.command
                   /\ returned[1].result.correction = Correction(t.command)

\* the best score that the variants of the n-th command reach for an input
CommandScore(input, n) ==
    best_variant(Lower(Strip(input)), command_variations[n], 1, NoBest).score

\* two fractions are the same number
SameScore(x, y) == x[1] * y[2] = y[1] * x[2]

\* the input is a key of emoji_map
IsEmoji(input) ==
    \E e \in 1..Len(emoji_map) : emoji_map[e].emoji = Lower(Strip(input))

\* C24: when several commands reach the maximum score for an input, match
\* returns the one that comes first in the order menu, help, settings, back,
\* yes, confirm, no, cancel, wrong, setup, delete: the command returned has
\* the maximum score, and every command before it has a smaller score.
C24_TieBreak ==
    (/\ Completed(1, "match")
     /\ ~IsEmoji(returned[1].arg)
     /\ returned[1].result.command # PyNone)
        => \E n \in 1..Len(command_variations) :
              /\ returned[1].result.command = command_variations[n].command
              /\ SameScore(CommandScore(returned[1].arg, n),
                           returned[1].result.confidence)
              /\ \A k \in 1..Len(command_variations) :
                    /\ ~Greater(CommandScore(returned[1].arg, k),
                                CommandScore(returned[1].arg, n))
                    /\ k < n => Greater(CommandScore(returned[1].arg, n),
                                        CommandScore(returned[1].arg, k))

\* "back" reaches 1.0 as a variant of menu and of back, and menu is returned
C24_Witness ==
    /\ Completed(1, "match")
    /\ returned[1].arg = <<"b", "a", "c", "k">>
    /\ returned[1].result.command = command_variations[1].command
    /\ SameScore(CommandScore(returned[1].arg, 1), CommandScore(returned[1].arg, 4))
    /\ command_variations[4].command = returned[1].arg

(***************************************************************************)
(* routes/sms.py : sms_webhook when the profile load raises, and the menu  *)
(* command of a returning user                                             *)
(***************************************************************************)
BodyMenu == <<"m", "e", "n", "u">>
BodyMemu == <<"m", "e", "m", "u">>
\* the menu command, a listed typo of it, and a message that holds no name
MenuBodies == {BodyMenu, BodyMemu, BodyBadEmail}

\* the most requests of a behaviour of the webhook with the command matcher
MaxMenus == 2

call_sms_menu(w) ==
    /\ Len(msg_minute[TestPhone]) < MaxMenus
    /\ \E body \in MenuBodies :
          Begin(w, "sms_webhook", body, "wh_allow", [LocInit EXCEPT !.body = body])
    /\ UNCHANGED redis

\* UserContextService.get_user_context with the except clause left out: what
\* get_profile raises leaves the function
get_user_context_propagates(loaded) == loaded

\* UserContextService.get_user_context, the profile of its result: None when
\* get_profile raised
get_user_context(loaded) == IF loaded = Raised THEN PyNone ELSE loaded

\* the except clause of the outer try of sms_webhook: the generic reply with
\* an error identifier
sms_webhook_except(w, l) == Return(w, Reply.service_unavailable, l)

\* get_user_context with a get_profile that may raise (as test_error_handling
\* replaces it), the fallback context of the webhook when get_user_context
\* raises, then user_profile.get('name'), which raises for the profile None:
\* the handler of the outer try answers
sms_webhook_load(w) ==
    /\ pc[w] = "wh_context"
    /\ \E raises, ok \in BOOLEAN :
          LET loaded == IF raises THEN Raised ELSE get_user_profile(ok)
              context == get_user_context(loaded)
              profile == IF context = Raised THEN EmptyDict ELSE context
              l == [Fault(loc[w], raises \/ ok) EXCEPT !.raised = raises,
                                                       !.context = profile]
          IN  IF profile = PyNone
              THEN sms_webhook_except(w, l)
              ELSE IF ~Truthy(profile["name"]) /\ Truthy(extract_name(l.body))
              THEN Call(w, "sn_client", "wh_name_stored",
                        [l EXCEPT !.name = extract_name(l.body)])
              ELSE IF ~Truthy(profile["name"])
              THEN update_user_interaction(w, "wh_onboarding", l)
              ELSE update_user_interaction(w, "wh_returning", l)
    /\ UNCHANGED redis

\* a returning user whose message is neither an email setup nor the erasure
\* command: the greeting, then the command that CommandMatcher finds
sms_webhook_fuzzy(w) ==
    /\ pc[w] = "wh_returning"
    /\ email_setup_match(loc[w].body) = PyNone
    /\ ~is_delete_command(loc[w].body)
    /\ IF is_greeting(loc[w].body)
       THEN Return(w, Reply.welcome_back, loc[w])
       ELSE IF \/ match(loc[w].body).command = BodyMenu
               \/ Lower(Strip(loc[w].body)) = BodyMenu
       THEN Return(w, Reply.menu, loc[w])
       ELSE Return(w, Reply.other, loc[w])
    /\ UNCHANGED redis

MenuNext ==
    \/ call_sms_menu(1)
    \/ sms_webhook_allow(1)
    \/ sms_webhook_load(1)
    \/ sms_webhook_name(1)
    \/ sms_webhook_fuzzy(1)
    \/ store_user_name(1)
    \/ update_profile(1)

MenuSpec == Init /\ [][MenuNext]_vars

C25_MenuReply ==
    (/\ Answered(1)
     /\ ~returned[1].faulted
     /\ ~returned[1].raised
     /\ returned[1].arg = BodyMenu
     /\ returned[1].pre # <<>>)
        => (Truthy(returned[1].pre[1]["name"])
              => returned[1].result = Reply.menu)

(***************************************************************************)
(* services/redis_service.py : hash_phone_number                           *)
(***************************************************************************)
\* str.replace(ch, ''): every occurrence of ch removed
RECURSIVE Remove(_, _)
Remove(s, ch) ==
    IF s = <<>> THEN <<>>
    ELSE IF Head(s) = ch THEN Remove(Tail(s), ch)
    ELSE <<Head(s)>> \o Remove(Tail(s), ch)

\* the normalisation with the leading '+' taken off before the separators
normalized_plus_first(phone) ==
    Remove(Remove(IF phone # <<>> /\ Head(phone) = "+" THEN Tail(phone) ELSE phone,
                  " "), "-")

\* str(phone).replace(' ', '').replace('-', ''), then one leading '+' off
normalized(phone) ==
    IF Remove(Remove(phone, " "), "-") # <<>>
       /\ Head(Remove(Remove(phone, " "), "-")) = "+"
    THEN Tail(Remove(Remove(phone, " "), "-"))
    ELSE Remove(Remove(phone, " "), "-")

\* os.getenv('PHONE_HASH_SALT', 'sven_family_salt_2025')
PHONE_HASH_SALT == <<"sven_family_salt_2025">>

\* hashlib.sha256(data).hexdigest()[:16], a function of data alone: the
\* digest of a string is written as that string under the tag sha256
sha256_16(data) == <<"sha256">> \o data

hash_phone_number(phone) == sha256_16(normalized(phone) \o PHONE_HASH_SALT)

\* the raw addresses: the strings of at most MaxRaw characters made of '+',
\* the separators and a digit
MaxRaw == 3
RawChars == {"+", " ", "-", "1"}
RawPhones == UNION {[1..n -> RawChars] : n \in 0..MaxRaw}

call_hash_phone_number(w) ==
    /\ \E phone \in RawPhones :
          Begin(w, "hash_phone_number", phone, "hp_hash", LocInit)
    /\ UNCHANGED redis

redis_hash_phone_number(w) ==
    /\ pc[w] = "hp_hash"
    /\ Return(w, hash_phone_number(loc[w].arg), loc[w])
    /\ UNCHANGED redis

HashNext ==
    \/ call_hash_phone_number(1)
    \/ redis_hash_phone_number(1)

HashSpec == Init /\ [][HashNext]_vars

\* the first character of an address that is no separator is '+'
HasPlus(phone) ==
    \E i \in 1..Len(phone) :
        /\ phone[i] = "+"
        /\ \A j \in 1..(i - 1) : phone[j] \in {" ", "-"}

\* the addresses that differ from phone in one separator, or in a leading '+'
\* that phone lacks
Variants(phone) ==
    {SubSeq(phone, 1, i) \o <<s>> \o SubSeq(phone, i + 1, Len(phone)) :
        i \in 0..Len(phone), s \in {" ", "-"}}
      \cup (IF HasPlus(phone) THEN {} ELSE {<<"+">> \o phone})

\* C29: hash_phone_number depends on the normalised address alone: an
\* address that differs from the one hashed in a separator (space, dash) or
\* in a leading '+' has the same key, and the address itself has the same key
\* on every call.
C29_SameKey ==
    Completed(1, "hash_phone_number")
        => \A phone \in Variants(returned[1].arg) \cup {returned[1].arg} :
              hash_phone_number(phone) = returned[1].result

\* the key of "+1" was computed, and " +1", "+-1" and "1" have the same key
C29_Witness ==
    /\ Completed(1, "hash_phone_number")
    /\ returned[1].arg = <<"+", "1">>
    /\ hash_phone_number(<<" ", "+", "1">>) = returned[1].result
    /\ hash_phone_number(<<"+", "-", "1">>) = returned[1].result
    /\ hash_phone_number(<<"1">>) = returned[1].result
    /\ hash_phone_number(<<"1", "1">>) # returned[1].result

(***************************************************************************)
(* store_user_name and store_user_email called by two requests at once     *)
(***************************************************************************)
RaceNext ==
    \/ call_store_user_name(1)
    \/ store_user_name(1)
    \/ call_store_user_email(2)
    \/ store_user_email(2)

RaceSpec == Init /\ [][RaceNext]_vars

\* C2: when a store_user_name and a store_user_email call overlap, the
\* profile stored after both have returned holds the new name and the new
\* email
C2_NoLostUpdate ==
    (/\ Completed(1, "store_user_name")
     /\ returned[1].result = PyTrue
     /\ Completed(2, "store_user_email")
     /\ returned[2].result = PyTrue)
        => /\ get_user_profile(TRUE)["name"] = returned[1].arg
           /\ get_user_profile(TRUE)["email"] = returned[2].arg

(***************************************************************************)
(* services/onboarding_manager.py : OnboardingManager, two requests of one *)
(* identity at once.  The get_profile and update_profile it calls on its   *)
(* profile manager are not in the sources: they are taken to read and to   *)
(* merge into the record of EnhancedUserProfileManager in one step each.   *)
(***************************************************************************)
STATE_SEQUENCE ==
    <<(<<"WELCOME">>), (<<"NAME_COLLECTION">>), (<<"FAMILY_INFO">>),
      (<<"EMAIL_SETUP">>), (<<"COMPLETION">>)>>

\* profile_manager.get_profile(phone)
get_profile == IF redis[LegacyKey] = <<>> THEN EmptyDict ELSE redis[LegacyKey][1]

\* profile_manager.update_profile(phone, updates)
profile_manager_update_profile(updates) ==
    redis' = [redis EXCEPT ![LegacyKey] = <<Update(get_profile, updates)>>]

\* profile.get('onboarding_state', WELCOME)
onboarding_state(profile) ==
    IF profile["onboarding_state"] = Absent THEN STATE_SEQUENCE[1]
    ELSE profile["onboarding_state"]

\* STATE_SEQUENCE.index(state), counted from 0
StateIndex(state) == (CHOOSE i \in 1..Len(STATE_SEQUENCE) : STATE_SEQUENCE[i] = state) - 1

\* OnboardingManager.get_onboarding_state(phone)
get_onboarding_state == onboarding_state(get_profile)

\* the collected data of the callers
CollectedData == {EmptyDict, [EmptyDict EXCEPT !["name"] = BodyCarlos]}

\* profile keeps the record that is stored when the call is made
call_advance_onboarding_state(w) ==
    /\ \E collected_data \in CollectedData :
          Begin(w, "advance_onboarding_state", PyNone, "ao_read",
                [LocInit EXCEPT !.updates = collected_data,
                                !.profile = get_profile])
    /\ UNCHANGED redis

\* handle_skip(phone, current_state) with the state the caller has just read
call_handle_skip(w) ==
    /\ Begin(w, "handle_skip", onboarding_state(get_profile), "hs_check", LocInit)
    /\ UNCHANGED redis

handle_skip(w) ==
    /\ pc[w] = "hs_check"
    /\ IF loc[w].arg \in {STATE_SEQUENCE[3], STATE_SEQUENCE[4]}
       THEN Jump(w, "ao_read", loc[w])
       ELSE Return(w, loc[w].arg, loc[w])
    /\ UNCHANGED redis

advance_onboarding_state(w) ==
    \/ /\ pc[w] = "ao_read"
       /\ Jump(w, "ao_save",
               [loc[w] EXCEPT !.idx = StateIndex(onboarding_state(get_profile))])
       /\ UNCHANGED redis
    \/ /\ pc[w] = "ao_save"
       /\ profile_manager_update_profile(loc[w].updates)
       /\ Jump(w, "ao_advance", [loc[w] EXCEPT !.updates = EmptyDict])
    \/ /\ pc[w] = "ao_advance"
       /\ LET next_state == STATE_SEQUENCE[loc[w].idx + 2]
          IN  IF loc[w].idx < Len(STATE_SEQUENCE) - 1
              THEN /\ profile_manager_update_profile(
                         [EmptyDict EXCEPT !["onboarding_state"] = next_state])
                   /\ Return(w, next_state, [loc[w] EXCEPT !.idx = 0])
              ELSE /\ profile_manager_update_profile(
                         [EmptyDict EXCEPT !["onboarding_complete"] = PyTrue,
                                           !["onboarding_state"] = STATE_SEQUENCE[5]])
                   /\ Return(w, STATE_SEQUENCE[5], [loc[w] EXCEPT !.idx = 0])

OnbNext ==
    \E w \in Workers :
        \/ call_advance_onboarding_state(w)
        \/ call_handle_skip(w)
        \/ handle_skip(w)
        \/ advance_onboarding_state(w)

OnbSpec == Init /\ [][OnbNext]_vars

\* the state that request w, standing before its last write, is to store
StateToWrite(w) ==
    IF loc[w].idx < Len(STATE_SEQUENCE) - 1 THEN STATE_SEQUENCE[loc[w].idx + 2]
    ELSE STATE_SEQUENCE[5]

\* C7: once the profile has onboarding_complete true, no advance or skip
\* call, however the calls interleave, changes its onboarding_state
C7_CompleteIsFinal ==
    \A w \in Workers :
        (pc[w] = "ao_advance" /\ Truthy(get_profile["onboarding_complete"]))
            => StateToWrite(w) = onboarding_state(get_profile)

\* C8: no advance or skip call, overlapping ones included, writes a state
\* earlier in STATE_SEQUENCE than the one stored
C8_ForwardOnly ==
    \A w \in Workers :
        pc[w] = "ao_advance"
            => StateIndex(StateToWrite(w)) >= StateIndex(onboarding_state(get_profile))

\* C26: whenever an advance or skip call returns COMPLETION, the stored
\* profile has onboarding_complete true once the call has returned.
C26_CompletionMarked ==
    \A w \in Workers :
        (/\ pc[w] = "idle"
         /\ returned[w].op \in {"advance_onboarding_state", "handle_skip"}
         /\ returned[w].result = STATE_SEQUENCE[5])
            => Truthy(get_profile["onboarding_complete"])

\* the profile is complete: state COMPLETION and onboarding_complete true
IsComplete(profile) ==
    /\ onboarding_state(profile) = STATE_SEQUENCE[5]
    /\ Truthy(profile["onboarding_complete"])

\* C27: advance_onboarding_state invoked on a profile that is already
\* complete is a no-op: no step of such a call changes the stored profile,
\* also when collected_data is not empty.
C27_CompleteNoOp ==
    [][\A w \in Workers :
          (/\ pc[w] \in {"ao_save", "ao_advance"}
           /\ pc'[w] # pc[w]
           /\ IsComplete(loc[w].profile))
              => redis'[LegacyKey] = redis[LegacyKey]]_vars

\* C28: the onboarding state that is reported is inferred from the fields
\* of the profile: for a profile without a name it is a state that collects
\* the name (WELCOME or NAME_COLLECTION), whatever state is stored.
C28_StateInferred ==
    ~Truthy(get_profile["name"])
        => get_onboarding_state \in {STATE_SEQUENCE[1], STATE_SEQUENCE[2]}

(***************************************************************************)
(* services/onboarding_state_manager.py : OnboardingStateManager           *)
(* advance_state, its loop around WATCH, GET, MULTI, SET and EXEC          *)
(***************************************************************************)
\* the collected data of the callers of advance_state
AdvanceData == CollectedData \cup {[EmptyDict EXCEPT !["email"] = EmailAddress]}

call_advance_state(w) ==
    /\ \E collected_data \in AdvanceData :
          Begin(w, "advance_state", collected_data, "as_pipeline",
                [LocInit EXCEPT !.updates = collected_data])
    /\ UNCHANGED redis

\* profile.update(collected_data) and the completion flag
advanced_profile(profile, collected_data) ==
    IF /\ Truthy(Update(profile, collected_data)["name"])
       /\ Truthy(Update(profile, collected_data)["email"])
    THEN [Update(profile, collected_data) EXCEPT !["onboarding_complete"] = PyTrue]
    ELSE Update(profile, collected_data)

\* what set(key, value) leaves under a profile key: the value, and no expiry.
\* A profile record <<value>> was written by setex with the profile lifetime.
Persistent == <<"no expiry">>
Set(value) == <<value, Persistent>>

\* TTL key, in seconds, of a profile key that holds a record: -1 without an
\* expiry
ProfileTtl(key) ==
    IF Len(redis[key]) = 2 /\ redis[key][2] = Persistent THEN -1
    ELSE get_redis_ttl("profile")

\* a pipeline whose execute never finds the watched key changed
WatchError_never(w) == FALSE

\* pipe.execute() after pipe.watch(profile_key): the key was written since
\* it was read
WatchError(w) ==
    loc[w].profile # (IF redis[ProfileKey] = <<>> THEN EmptyDict
                      ELSE redis[ProfileKey][1])

advance_state(w) ==
    \* pipe = self.redis.pipeline(): without a client the call raises
    \/ /\ pc[w] = "as_pipeline"
       /\ \E ok \in BOOLEAN :
             IF ok THEN Jump(w, "as_watch", loc[w])
             ELSE Return(w, Raised, Fault(loc[w], ok))
       /\ UNCHANGED redis
    \* pipe.watch, pipe.get, json.loads, profile.update: whatever raises goes
    \* to the except clause
    \/ /\ pc[w] = "as_watch"
       /\ \E ok \in BOOLEAN :
             IF ok /\ (redis[ProfileKey] = <<>> \/ Parses(redis[ProfileKey][1]))
             THEN Jump(w, "as_execute",
                       [loc[w] EXCEPT
                          !.profile = IF redis[ProfileKey] = <<>> THEN EmptyDict
                                      ELSE redis[ProfileKey][1],
                          !.merged = advanced_profile(
                                        IF redis[ProfileKey] = <<>> THEN EmptyDict
                                        ELSE redis[ProfileKey][1],
                                        loc[w].updates)])
             ELSE Jump(w, "as_except", Fault(loc[w], ok))
       /\ UNCHANGED redis
    \* pipe.multi, pipe.set, pipe.execute: the write happens when the store
    \* answers and the watched key is as it was read; then break, pipe.reset
    \/ /\ pc[w] = "as_execute"
       /\ \E ok \in BOOLEAN :
             IF ok /\ ~WatchError(w)
             THEN /\ redis' = [redis EXCEPT ![ProfileKey] = Set(loc[w].merged)]
                  /\ Return(w, PyNone, [loc[w] EXCEPT !.profile = EmptyDict,
                                                      !.merged = EmptyDict])
             ELSE /\ redis' = redis
                  /\ Jump(w, "as_except",
                          [Fault(loc[w], ok) EXCEPT !.profile = EmptyDict,
                                                    !.merged = EmptyDict])
    \* except Exception: the error is logged, pipe.reset(), continue
    \/ /\ pc[w] = "as_except"
       /\ Jump(w, "as_watch", loc[w])
       /\ UNCHANGED redis

AdvanceNext ==
    \/ call_advance_state(1)
    \/ advance_state(1)
    \/ profile_corrupted

AdvanceSpec == Init /\ [][AdvanceNext]_vars

\* every step of advance_state that can be taken is taken in the end
AdvanceFairSpec == AdvanceSpec /\ WF_vars(advance_state(1))

\* C30: advance_state always terminates: every call returns or reports an
\* error in the end, also when the store stays unavailable or the stored
\* payload is corrupt.
C30_Terminates == (loc[1].op = "advance_state") ~> (pc[1] = "idle")

\* advance_state called by two requests of one identity at once: request 1
\* collects the name, request 2 the email
FieldOf(w) ==
    IF w = 1 THEN [EmptyDict EXCEPT !["name"] = BodyCarlos]
    ELSE [EmptyDict EXCEPT !["email"] = EmailAddress]

call_advance_field(w) ==
    /\ Begin(w, "advance_state", FieldOf(w), "as_pipeline",
             [LocInit EXCEPT !.updates = FieldOf(w)])
    /\ UNCHANGED redis

AdvanceRaceNext ==
    \E w \in Workers :
        \/ call_advance_field(w)
        \/ advance_state(w)

AdvanceRaceSpec == Init /\ [][AdvanceRaceNext]_vars

\* request w has returned from advance_state(phone, data) without an error
Advanced(w, data) ==
    /\ pc[w] = "idle"
    /\ returned[w].op = "advance_state"
    /\ returned[w].arg = data
    /\ returned[w].result = PyNone

\* C31: when an advance_state call that collects the name and one that
\* collects the email have both returned, however they overlapped, the
\* stored profile holds both fields and onboarding_complete is true.
C31_BothFields ==
    \A w, v \in Workers :
        (/\ Advanced(w, [EmptyDict EXCEPT !["name"] = BodyCarlos])
         /\ Advanced(v, [EmptyDict EXCEPT !["email"] = EmailAddress]))
            => /\ redis[ProfileKey] # <<>>
               /\ redis[ProfileKey][1]["name"] = BodyCarlos
               /\ redis[ProfileKey][1]["email"] = EmailAddress
               /\ redis[ProfileKey][1]["onboarding_complete"] = PyTrue

\* both calls began on the empty store, so they overlapped, and both fields
\* are stored
C31_Witness ==
    /\ Advanced(1, [EmptyDict EXCEPT !["name"] = BodyCarlos])
    /\ Advanced(2, [EmptyDict EXCEPT !["email"] = EmailAddress])
    /\ returned[1].pre = <<>>
    /\ returned[2].pre = <<>>
    /\ redis[ProfileKey][1]["name"] = BodyCarlos
    /\ redis[ProfileKey][1]["email"] = EmailAddress

\* C32: every write of a profile record leaves it with the full profile
\* lifetime: no stored profile record is without an expiry.
C32_TtlRefreshed ==
    \A key \in {ProfileKey, LegacyKey} :
        redis[key] # <<>> => ProfileTtl(key) = REDIS_PROFILE_TTL

(***************************************************************************)
(* The limiter as the webhook calls it: with the From value of the request *)
(* as it came in, once validate_phone has accepted it.                     *)
(***************************************************************************)
\* the test number written with dashes
TestPhoneDashed == "+1-555-123-4567"
Addresses == Phones \cup {TestPhoneDashed}

\* the characters of the addresses
Chars ==
    [p \in Addresses |->
        IF p = TestPhone
        THEN <<"+", "1", "5", "5", "5", "1", "2", "3", "4", "5", "6", "7">>
        ELSE IF p = TestPhoneDashed
        THEN <<"+", "1", "-", "5", "5", "5", "-", "1", "2", "3", "-",
               "4", "5", "6", "7">>
        ELSE <<"+", "1", "6", "1", "7", "8", "1", "7", "1", "6", "3", "5">>]

\* re.sub(r'\D', '', str(phone))
normalize_phone(phone) == SelectSeq(phone, LAMBDA c : c \in Digits)

\* bool(re.match(r'^1?\d{10}$', norm))
validate_phone(phone) ==
    \/ Len(normalize_phone(phone)) = 10
    \/ Len(normalize_phone(phone)) = 11 /\ normalize_phone(phone)[1] = "1"

\* sms_webhook up to the limiter's answer: validate_phone(from_number), then
\* AntiAbuseLimiter.allow(from_number, message_body)
sms_webhook_limiter(from_number) ==
    /\ validate_phone(Chars[from_number])
    /\ \E m \in LimiterMsgs(from_number) : AllowCall(from_number, m, TRUE)
    /\ UNCHANGED storeVars

KeyInit ==
    /\ now = 0
    /\ msg_minute = [p \in Addresses |-> <<>>]
    /\ fail_minute = [p \in Addresses |-> <<>>]
    /\ banned = [p \in Addresses |-> 0]
    /\ identical_msgs = [p \in Addresses |-> <<>>]
    /\ lastAllow = AllowResult(TestPhone, TRUE, 0)
    /\ admitted = [p \in Addresses |-> <<>>]
    /\ prior = [count |-> 0, banned |-> FALSE, burst |-> 0]
    /\ StoreInit
    /\ CacheInit

KeyNext == \E from_number \in Addresses : sms_webhook_limiter(from_number)

\* a burst of requests under either form of the test number
KeySpec == KeyInit /\ [][KeyNext]_vars

\* C35: the limiter's state belongs to the identity: two addresses with the
\* same identity key have one message window, one run of identical messages
\* and one ban between them.
C35_KeyedByIdentity ==
    \A p, q \in Addresses :
        hash_phone_number(Chars[p]) = hash_phone_number(Chars[q])
            => /\ msg_minute[p] = msg_minute[q]
               /\ identical_msgs[p] = identical_msgs[q]
               /\ banned[p] = banned[q]

(***************************************************************************)
(* services/user_profile_manager.py                                        *)
(***************************************************************************)
\* the forms in which the test number reaches the profile manager
RawAddresses == {Chars[TestPhone], Chars[TestPhoneDashed]}

\* UserProfileManager._profile_key(phone): the key of the identity of the
\* model for every address with its hash (the default salt)
profile_key(phone) ==
    IF hash_phone_number(phone) = hash_phone_number(Chars[TestPhone])
    THEN LegacyKey ELSE "user:{other}:profile"

\* the dict create_user_profile builds; the time stamp is not modelled
new_user_profile(phone, email, name) ==
    [phone |-> phone, email |-> email, name |-> name,
     last_seen |-> <<"last_seen">>, message_count |-> <<"0">>,
     onboarding_complete |-> PyFalse]

call_create_user_profile(w) ==
    /\ \E phone \in RawAddresses, email \in {PyNone, EmailAddress},
          name \in {PyNone, BodyCarlos} :
          Begin(w, "create_user_profile", phone, "cp_save",
                [LocInit EXCEPT !.email = email, !.name = name])
    /\ UNCHANGED redis

\* create_user_profile from save_user_profile on: setex under the profile
\* key, or the exception of a store that does not answer
create_user_profile(w) ==
    /\ pc[w] = "cp_save"
    /\ \E ok \in BOOLEAN :
          LET profile == new_user_profile(loc[w].arg, loc[w].email, loc[w].name)
          IN  IF ok
              THEN /\ redis' = [redis EXCEPT
                                  ![profile_key(loc[w].arg)] = <<profile>>]
                   /\ Return(w, profile, loc[w])
              ELSE /\ redis' = redis
                   /\ Return(w, Raised, [loc[w] EXCEPT !.faulted = TRUE,
                                                       !.raised = TRUE])

CreateNext ==
    \E w \in Workers : call_create_user_profile(w) \/ create_user_profile(w)

CreateSpec == Init /\ [][CreateNext]_vars

\* C36: no profile record of the store holds the address it belongs to: no
\* value in a stored profile is one of the raw addresses.
C36_NoRawAddress ==
    \A key \in {ProfileKey, LegacyKey} :
        redis[key] # <<>>
            => \A f \in DOMAIN redis[key][1] : redis[key][1][f] \notin RawAddresses

\* C37: the webhook answers that all data has been deleted only when the
\* deletion took effect: at that answer neither the profile nor the pending
\* event of the identity is stored.
C37_DeletedMeansDeleted ==
    (Answered(1) /\ returned[1].result = Reply.deleted)
        => redis[ProfileKey] = <<>> /\ redis[PendingKey] = <<>>

(***************************************************************************)
(* CommandMatcher.is_confirmation and is_rejection                         *)
(***************************************************************************)
\* set(self.command_variations[command])
VariantSet(command) ==
    UNION {{command_variations[n].variants[k] :
               k \in 1..Len(command_variations[n].variants)} :
             n \in {n \in 1..Len(command_variations) :
                      command_variations[n].command = command}}

confirmation_patterns ==
    VariantSet(<<"y", "e", "s">>) \cup VariantSet(<<"c", "o", "n", "f", "i", "r", "m">>)

rejection_patterns ==
    VariantSet(<<"n", "o">>) \cup VariantSet(<<"c", "a", "n", "c", "e", "l">>)
        \cup VariantSet(<<"w", "r", "o", "n", "g">>)

\* text in self.emoji_map and self.emoji_map[text] == command
MapsTo(text, command) ==
    \E e \in 1..Len(emoji_map) :
        emoji_map[e].emoji = text /\ emoji_map[e].command = command

\* any pattern of patterns with SequenceMatcher(None, text, pattern).ratio() > 0.8
Close(text, patterns) ==
    \E pattern \in patterns : Greater(ratio(text, pattern), <<8, 10>>)

is_confirmation(text) ==
    Only({MapsTo(t, <<"y", "e", "s">>) \/ Close(t, confirmation_patterns) :
            t \in {Lower(Strip(text))}})

is_rejection(text) ==
    Only({MapsTo(t, <<"n", "o">>) \/ Close(t, rejection_patterns) :
            t \in {Lower(Strip(text))}})

\* the texts asked about: every confirmation and every rejection pattern
IntentInputs == confirmation_patterns \cup rejection_patterns

\* bool as the Python value
PyBool(b) == IF b THEN PyTrue ELSE PyFalse

call_is_confirmation(w) ==
    /\ \E text \in IntentInputs :
          Begin(w, "is_confirmation", text, "cm_confirmation",
                [LocInit EXCEPT !.body = text])
    /\ UNCHANGED redis

call_is_rejection(w) ==
    /\ \E text \in IntentInputs :
          Begin(w, "is_rejection", text, "cm_rejection",
                [LocInit EXCEPT !.body = text])
    /\ UNCHANGED redis

command_matcher_is_confirmation(w) ==
    /\ pc[w] = "cm_confirmation"
    /\ Return(w, PyBool(is_confirmation(loc[w].body)), loc[w])
    /\ UNCHANGED redis

command_matcher_is_rejection(w) ==
    /\ pc[w] = "cm_rejection"
    /\ Return(w, PyBool(is_rejection(loc[w].body)), loc[w])
    /\ UNCHANGED redis

IntentNext ==
    \/ call_is_confirmation(1)
    \/ call_is_rejection(1)
    \/ command_matcher_is_confirmation(1)
    \/ command_matcher_is_rejection(1)

IntentSpec == Init /\ [][IntentNext]_vars

\* C38: no text is a confirmation and a rejection: a text for which
\* is_confirmation has returned True is no rejection, and a text for which
\* is_rejection has returned True is no confirmation.
C38_IntentsExclusive ==
    /\ (Completed(1, "is_confirmation") /\ returned[1].result = PyTrue)
          => ~is_rejection(returned[1].arg)
    /\ (Completed(1, "is_rejection") /\ returned[1].result = PyTrue)
          => ~is_confirmation(returned[1].arg)

(***************************************************************************)
(* services/cache_optimizer.py : LRUCache, and the response cache of       *)
(* app.py.  Both read the clock now; an operation of either takes its lock *)
(* or runs to its end in one step.                                         *)
(***************************************************************************)
\* LRUCache(max_size, ttl): the default ttl in seconds, and a small max_size
CacheTtl == 3600
CacheMaxSize == 2
\* CACHE_EXPIRY of app.py, in seconds
CACHE_EXPIRY == 3600

CacheKeys == {"k1", "k2", "k3"}
CacheValues == {<<"v1">>, <<"v2">>}

\* the instants at which the clock is read: at, just before and just after
\* the end of each of the first two lifetimes
CacheInstants ==
    {t \in {k * CacheTtl * TicksPerSec + o : k \in 0..2, o \in {-1, 0, 1}} :
        t >= 0 /\ t <= 2 * CacheTtl * TicksPerSec}

\* time passes between two operations on a cache
CacheTick ==
    /\ \E t \in CacheInstants : t > now /\ now' = t
    /\ UNCHANGED <<msg_minute, fail_minute, banned, identical_msgs, lastAllow>>
    /\ UNCHANGED <<ghostVars, storeVars, cacheVars>>

\* a cache operation of request w returns val, or raises when raises holds;
\* what becomes of the caches is said by the operation
CacheReturn(w, val, raises) ==
    /\ pc' = [pc EXCEPT ![w] = "idle"]
    /\ returned' = [returned EXCEPT ![w] =
                      [op |-> loc[w].op, arg |-> loc[w].arg, result |-> val,
                       pre |-> loc[w].pre, pending |-> loc[w].pending,
                       faulted |-> loc[w].faulted, raised |-> raises]]
    /\ loc' = [loc EXCEPT ![w] = LocInit]
    /\ UNCHANGED <<stack, redis, limiterVars, ghostVars>>

\* key in self.cache, self.cache[key], and self.cache once key is popped
InCache(c, key) == \E i \in 1..Len(c) : c[i].key = key
CacheEntry(c, key) == c[CHOOSE i \in 1..Len(c) : c[i].key = key]
Popped(c, key) == SelectSeq(c, LAMBDA e : e.key # key)

call_lru_get(w) ==
    /\ \E key \in CacheKeys : Begin(w, "LRUCache.get", key, "lru_get", LocInit)
    /\ UNCHANGED redis

\* LRUCache.get(key): the entry is popped; a live one is put back at the end,
\* for an expired one del self.cache[key] finds no such key and raises
LRUCache_get(w) ==
    /\ pc[w] = "lru_get"
    /\ IF InCache(cache, loc[w].arg)
       THEN IF CacheEntry(cache, loc[w].arg).expires > now
            THEN /\ cache' = Append(Popped(cache, loc[w].arg),
                                    CacheEntry(cache, loc[w].arg))
                 /\ CacheReturn(w, CacheEntry(cache, loc[w].arg).value, FALSE)
            ELSE /\ cache' = Popped(cache, loc[w].arg)
                 /\ CacheReturn(w, Raised, TRUE)
       ELSE /\ cache' = cache
            /\ CacheReturn(w, PyNone, FALSE)
    /\ UNCHANGED <<response_cache, lru_cache>>

call_lru_set(w) ==
    /\ \E key \in CacheKeys, value \in CacheValues :
          Begin(w, "LRUCache.set", key, "lru_set", [LocInit EXCEPT !.body = value])
    /\ UNCHANGED redis

\* LRUCache.set(key, value)
LRUCache_set(w) ==
    /\ pc[w] = "lru_set"
    /\ cache' = Append(IF InCache(cache, loc[w].arg) THEN Popped(cache, loc[w].arg)
                       ELSE IF Len(cache) >= CacheMaxSize THEN Tail(cache)
                       ELSE cache,
                       [key |-> loc[w].arg, value |-> loc[w].body,
                        expires |-> now + CacheTtl * TicksPerSec])
    /\ CacheReturn(w, PyNone, FALSE)
    /\ UNCHANGED <<response_cache, lru_cache>>

LruNext ==
    \/ call_lru_get(1)
    \/ call_lru_set(1)
    \/ LRUCache_get(1)
    \/ LRUCache_set(1)
    \/ CacheTick

LruSpec == Init /\ [][LruNext]_vars

\* C39: LRUCache.get of a key whose entry has expired returns None, does not
\* raise, and leaves the cache without an entry for the key.
C39_ExpiredGetMisses ==
    [][(/\ pc[1] = "lru_get"
        /\ pc'[1] = "idle"
        /\ InCache(cache, loc[1].arg)
        /\ CacheEntry(cache, loc[1].arg).expires <= now)
           => /\ returned'[1].result = PyNone
              /\ ~returned'[1].raised
              /\ ~InCache(cache', loc[1].arg)]_vars

\* the responses stored, and an entry of response_cache
Responses == {<<"r1">>, <<"r2">>}
CacheRecord(response, timestamp) == <<"entry", response, timestamp>>

\* response_cache.get(message_hash)
response_cache_get(message_hash) ==
    IF response_cache[message_hash] = <<>> THEN PyNone
    ELSE response_cache[message_hash][1]

call_get_cached_response(w) ==
    /\ \E message_hash \in Hashes :
          Begin(w, "get_cached_response", message_hash, "rc_get", LocInit)
    /\ UNCHANGED redis

\* get_cached_response(message_hash) under functools.lru_cache(maxsize=100):
\* the first call for a hash runs the body and its result is kept, every
\* later call for that hash returns the result kept
get_cached_response(w) ==
    /\ pc[w] = "rc_get"
    /\ IF lru_cache[loc[w].arg] # <<>>
       THEN /\ lru_cache' = lru_cache
            /\ CacheReturn(w, lru_cache[loc[w].arg][1], FALSE)
       ELSE /\ lru_cache' = [lru_cache EXCEPT
                               ![loc[w].arg] = <<response_cache_get(loc[w].arg)>>]
            /\ CacheReturn(w, response_cache_get(loc[w].arg), FALSE)
    /\ UNCHANGED <<cache, response_cache>>

call_cache_response(w) ==
    /\ \E message_hash \in Hashes, response \in Responses :
          Begin(w, "cache_response", message_hash, "rc_store",
                [LocInit EXCEPT !.body = response])
    /\ UNCHANGED redis

\* cache_response(message_hash, response): the entry is stored with the time
\* of the call, then the entries older than CACHE_EXPIRY are deleted
cache_response(w) ==
    /\ pc[w] = "rc_store"
    /\ response_cache' =
          [h \in Hashes |->
              IF h = loc[w].arg THEN <<CacheRecord(loc[w].body, now)>>
              ELSE IF response_cache[h] # <<>>
                      /\ now - response_cache[h][1][3] > CACHE_EXPIRY * TicksPerSec
              THEN <<>>
              ELSE response_cache[h]]
    /\ CacheReturn(w, PyNone, FALSE)
    /\ UNCHANGED <<cache, lru_cache>>

ResponseNext ==
    \/ call_get_cached_response(1)
    \/ call_cache_response(1)
    \/ get_cached_response(1)
    \/ cache_response(1)
    \/ CacheTick

ResponseSpec == Init /\ [][ResponseNext]_vars

\* C40: once cache_response(h, r) has stored an entry, get_cached_response(h)
\* returns that entry for as long as it is younger than CACHE_EXPIRY,
\* whatever was called before: a call that has returned while such an entry
\* is stored has returned it.
C40_ReadAfterWrite ==
    (/\ Completed(1, "get_cached_response")
     /\ response_cache[returned[1].arg] # <<>>
     /\ now - response_cache[returned[1].arg][1][3] < CACHE_EXPIRY * TicksPerSec)
        => returned[1].result = response_cache[returned[1].arg][1]

\* the limiter alone, the store left as it is
LimiterSpec ==
    Init /\ [][LimiterNext]_vars

\* C1: once MsgCap messages of a non-allow-listed, non-banned identity have
\* been admitted inside the trailing window, the next message inside that
\* window is rejected with a positive wait.
C1_CapEnforced ==
    (/\ lastAllow.phone \notin Whitelist
     /\ ~prior.banned
     /\ prior.count >= MsgCap)
        => (~lastAllow.allowed /\ lastAllow.wait > 0)

\* the number of equal messages at the end of the kept messages
Streak(im) ==
    IF im = <<>> THEN 0
    ELSE Cardinality({i \in 1..Len(im) :
                        \A j \in i..Len(im) : im[j] = im[Len(im)]})

\* C15: the duplicate ban is set exactly when the streak of identical
\* consecutive messages reaches IdenticalCap: a call of an identity that is
\* not allow-listed and not banned is rejected with the duplicate ban if and
\* only if its message is the IdenticalCap-th identical message in a row.
C15_DuplicateBan ==
    (lastAllow.phone \notin Whitelist /\ ~prior.banned)
        => ((~lastAllow.allowed /\ lastAllow.wait = IdenticalBanSecs)
               <=> Streak(identical_msgs[lastAllow.phone]) >= IdenticalCap)

\* C16: a banned identity is rejected by every call, and every rejection
\* carries a wait of more than zero seconds.
C16_BanHolds ==
    /\ (lastAllow.phone \notin Whitelist /\ prior.banned) => ~lastAllow.allowed
    /\ ~lastAllow.allowed => lastAllow.wait > 0

\* the last message differs from the one before it
NoRepeat(im) ==
    Len(im) < 2 \/ im[Len(im)] # im[Len(im) - 1]

====
